---------------------------- MODULE Spec2Model ----------------------------
(***************************************************************************)
(* The function inliner of the Intercept code generator                    *)
(* (src/src/codegen/opt/inline.c) over a pointer-level model of the IR:    *)
(* instructions and blocks are heap cells with prev/next/parent links,     *)
(* users sets and the scratch id field the inliner numbers them with.      *)
(***************************************************************************)
EXTENDS Integers, Sequences, FiniteSets, TLC

VARIABLES
  insts,          \* heap of IRInstruction cells, indexed by address 1..Len
  blocks,         \* heap of IRBlock cells
  functions,      \* ctx->functions, in order
  history,        \* ictx->history
  not_inlinable,  \* ictx->not_inlinable
  threshold,      \* ictx->threshold
  may_fail,       \* ictx->may_fail
  entry,          \* which entry point runs the pass
  pc,             \* position in run_inliner / inline_calls_in_function
  fidx,           \* index of f in the foreach_val of run_inliner
  block,          \* the block cursor of inline_calls_in_function
  inst,           \* the instruction cursor of list_foreach
  res,            \* the inline_result of the current function
  total,          \* the inline_result of run_inliner
  diags,          \* diagnostics issued so far
  last,           \* what the last examined instruction led to
  pre,            \* the IR and history as they were before that step
  runs,           \* the IR each call of run_inliner so far was entered with
  cmp,            \* a call of Type::Equal: its arguments and what it returned
  node            \* the function node handed to codegen_function

vars == <<insts, blocks, functions, history, not_inlinable, threshold,
          may_fail, entry, pc, fidx, block, inst, res, total, diags, last, pre,
          runs, cmp, node>>

NULL == 0
ROOT_INLINE_ENTRY == -1

\* No type comparison and no code generation takes part in a run of the inliner.
NoComparison == [lang |-> "none", a |-> NULL, b |-> NULL, done |-> FALSE, result |-> FALSE]
NoNode == [kind |-> "NONE"]

\* Largest threshold opt_inline is run with.
MaxThreshold == 3

\* How many times in a row the pass is run on a module.
MaxRuns == 2

--------------------------------------------------------------------------
(* Heap cells *)

\* A calloc'ed IRInstruction.
BlankInst ==
  [kind |-> "NONE", ops |-> <<>>, blks |-> <<>>, callee |-> NULL,
   is_indirect |-> FALSE, tail_call |-> FALSE, callee_instruction |-> NULL,
   parent_block |-> NULL, prev |-> NULL, next |-> NULL, users |-> {},
   id |-> 0, freed |-> FALSE]

\* A calloc'ed IRBlock.
BlankBlock ==
  [function |-> NULL, first |-> NULL, last |-> NULL, prev |-> NULL,
   next |-> NULL, id |-> 0]

Range(s) == {s[k] : k \in DOMAIN s}

\* A function on 1..n, as the sequence it is.
AsSeq(f) == f \o <<>>

Terminators == {"BRANCH", "BRANCH_CONDITIONAL", "RETURN", "UNREACHABLE"}

\* The instructions an instruction names as operands (ir_for_each_child).
Children(r) ==
  Range(r.ops) \cup (IF r.callee_instruction = NULL THEN {} ELSE {r.callee_instruction})

--------------------------------------------------------------------------
(* Intrusive lists *)

RECURSIVE InstChain(_, _, _)
\* list_foreach over instructions: follow next from i until NULL.
InstChain(I, i, fuel) ==
  IF i = NULL \/ fuel = 0 THEN <<>>
  ELSE <<i>> \o InstChain(I, I[i].next, fuel - 1)

RECURSIVE BlockChain(_, _, _)
\* list_foreach over blocks: follow next from b until NULL.
BlockChain(B, b, fuel) ==
  IF b = NULL \/ fuel = 0 THEN <<>>
  ELSE <<b>> \o BlockChain(B, B[b].next, fuel - 1)

\* The instructions of one block, in list order.
BlockInstructions(I, B, b) == InstChain(I, B[b].first, Len(I) + 1)

\* The blocks of a function, in list order.
FunctionBlocks(B, F, f) == BlockChain(B, F[f].first, Len(B) + 1)

\* list_size(callee->blocks).
list_size(B, F, f) == Len(FunctionBlocks(B, F, f))

RECURSIVE ItemsOf(_, _, _)
\* <<block, instruction>> pairs of a list of blocks, in iteration order.
ItemsOf(I, B, bs) ==
  IF bs = <<>> THEN <<>>
  ELSE LET b == Head(bs)
           is == BlockInstructions(I, B, b)
       IN AsSeq([k \in 1..Len(is) |-> <<b, is[k]>>]) \o ItemsOf(I, B, Tail(bs))

\* FOREACH_INSTRUCTION_IN_FUNCTION.
FunctionItems(I, B, F, f) == ItemsOf(I, B, FunctionBlocks(B, F, f))

FunctionInstructions(I, B, F, f) ==
  LET it == FunctionItems(I, B, F, f) IN AsSeq([k \in 1..Len(it) |-> it[k][2]])

\* list_push_back(block->instructions, i), with i->parent_block = b.
PushBack(I, B, b, i) ==
  LET l == B[b].last IN
  IF B[b].first = NULL
  THEN [I |-> [I EXCEPT ![i].parent_block = b, ![i].prev = NULL, ![i].next = NULL],
        B |-> [B EXCEPT ![b].first = i, ![b].last = i]]
  ELSE [I |-> [I EXCEPT ![i].parent_block = b, ![i].prev = l, ![i].next = NULL,
                        ![l].next = i],
        B |-> [B EXCEPT ![b].last = i]]

\* list_remove(block->instructions, i).
ListRemove(I, B, i) ==
  LET r == I[i]
      b == r.parent_block
      I1 == IF r.prev # NULL THEN [I EXCEPT ![r.prev].next = r.next] ELSE I
      I2 == IF r.next # NULL THEN [I1 EXCEPT ![r.next].prev = r.prev] ELSE I1
      B1 == IF b # NULL /\ B[b].first = i THEN [B EXCEPT ![b].first = r.next] ELSE B
      B2 == IF b # NULL /\ B1[b].last = i THEN [B1 EXCEPT ![b].last = r.prev] ELSE B1
  IN [I |-> [I2 EXCEPT ![i].prev = NULL, ![i].next = NULL], B |-> B2]

--------------------------------------------------------------------------
(* Use lists *)

mark_used(I, usee, user) == [I EXCEPT ![usee].users = @ \cup {user}]

ir_remove_use(I, usee, user) == [I EXCEPT ![usee].users = @ \ {user}]

\* Detach i from the users set of each of its operands.
ir_unmark_usees(I, i) ==
  AsSeq([k \in DOMAIN I |->
     IF k \in Children(I[i]) THEN [I[k] EXCEPT !.users = @ \ {i}] ELSE I[k]])

\* Replace every use of old by new (RAUW).
ir_replace_uses(I, old, new) ==
  IF old = new THEN I
  ELSE LET us == I[old].users IN
    AsSeq([k \in DOMAIN I |->
       IF k = old THEN [I[k] EXCEPT !.users = {}]
       ELSE LET r0 == I[k]
                r1 == IF k \in us
                      THEN [r0 EXCEPT
                              !.ops = AsSeq([j \in DOMAIN r0.ops |->
                                         IF r0.ops[j] = old THEN new ELSE r0.ops[j]]),
                              !.callee_instruction = IF @ = old THEN new ELSE @]
                      ELSE r0
            IN IF k = new THEN [r1 EXCEPT !.users = @ \cup us] ELSE r1])

\* ir_remove asserts that i has no users.
CanRemove(I, i) == I[i].users = {}

\* ir_remove: unlink from the owning block, detach operand uses, free.
ir_remove(I, B, i) ==
  LET u == ListRemove(I, B, i)
      I1 == ir_unmark_usees(u.I, i)
  IN [I |-> [I1 EXCEPT ![i].freed = TRUE], B |-> u.B]

--------------------------------------------------------------------------
(* ir_inline_call *)

\* instruction_count(f, include_parameters).
instruction_count(I, B, F, f, include_parameters) ==
  LET is == FunctionInstructions(I, B, F, f) IN
  Cardinality({k \in 1..Len(is) : include_parameters \/ I[is[k]].kind # "PARAMETER"})

\* The last history entry whose call is this instruction (0 when none); the
\* lookup loop does not stop at the first match.
HistoryLookup(hist, call) ==
  LET hits == {k \in 1..Len(hist) : hist[k].call = call} IN
  IF hits = {} THEN 0 ELSE CHOOSE k \in hits : \A j \in hits : j <= k

RECURSIVE AncestorHasCallee(_, _, _)
\* The for (;;) walk over the ancestry, starting at entry k.
AncestorHasCallee(hist, k, callee) ==
  IF hist[k].callee = callee THEN TRUE
  ELSE IF hist[k].inlined_via = ROOT_INLINE_ENTRY THEN FALSE
  ELSE AncestorHasCallee(hist, hist[k].inlined_via, callee)

\* Variant: the walk over the ancestry starts one entry too far up.
InlineCycle_SkipsParent(hist, call, callee) ==
  LET e == HistoryLookup(hist, call) IN
  /\ e # 0
  /\ hist[e].inlined_via # ROOT_INLINE_ENTRY
  /\ hist[hist[e].inlined_via].inlined_via # ROOT_INLINE_ENTRY
  /\ AncestorHasCallee(hist, hist[hist[e].inlined_via].inlined_via, callee)

\* Whether ir_inline_call reports an inline cycle for this call.
InlineCycle(hist, call, callee) ==
  LET e == HistoryLookup(hist, call) IN
  /\ e # 0
  /\ hist[e].inlined_via # ROOT_INLINE_ENTRY
  /\ AncestorHasCallee(hist, hist[e].inlined_via, callee)

\* Remove the call and everything after it from the block list, leaving the
\* instructions after it linked to each other.
SplitBlock(I, B, call) ==
  LET r == I[call]
      b == r.parent_block
      first1 == IF B[b].first = call \/ B[b].first = r.next THEN NULL ELSE B[b].first
      I1 == IF r.prev # NULL THEN [I EXCEPT ![r.prev].next = NULL] ELSE I
      I2 == IF r.next # NULL THEN [I1 EXCEPT ![r.next].prev = NULL] ELSE I1
  IN [I |-> [I2 EXCEPT ![call].prev = NULL, ![call].next = NULL],
      B |-> [B EXCEPT ![b].first = first1, ![b].last = r.prev]]

\* Number the callee's blocks and non-parameter instructions in list order and
\* point the parameters' ids at the last slots of the instructions vector.
EnumerateIds(I, B, F, callee, count) ==
  LET bs == FunctionBlocks(B, F, callee)
      is == FunctionInstructions(I, B, F, callee)
      np == {k \in 1..Len(is) : I[is[k]].kind # "PARAMETER"}
      ps == F[callee].parameters
      I1 == AsSeq([a \in DOMAIN I |->
               IF \E k \in np : is[k] = a
               THEN LET k == CHOOSE k \in np : is[k] = a
                    IN [I[a] EXCEPT !.id = Cardinality({j \in np : j < k})]
               ELSE I[a]])
      I2 == AsSeq([a \in DOMAIN I |->
               IF \E p \in DOMAIN ps : ps[p] = a
               THEN LET p == CHOOSE p \in DOMAIN ps : ps[p] = a
                    IN [I1[a] EXCEPT !.id = count - Len(ps) + (p - 1)]
               ELSE I1[a]])
  IN [I |-> I2,
      B |-> AsSeq([b \in DOMAIN B |->
               IF \E k \in DOMAIN bs : bs[k] = b
               THEN [B[b] EXCEPT !.id = (CHOOSE k \in DOMAIN bs : bs[k] = b) - 1]
               ELSE B[b]])]

\* MAP(inst) and MAP_BLOCK(block) on the transplant state c.
MapInBounds(c, x) == x # NULL /\ c.I[x].id + 1 \in DOMAIN c.vec
MAP(c, x) == c.vec[c.I[x].id + 1]
MapBlockInBounds(c, b) == b # NULL /\ c.B[b].id + 1 \in DOMAIN c.bvec
MAP_BLOCK(c, b) == c.bvec[c.B[b].id + 1]

\* The block a return-value PHI records for a Return found in callee block blk.
PhiIncomingBlock(c, blk) == blk

\* ir_force_insert_into_block(MAP_BLOCK(block), copy), the copy being rec.
InsertCopy(c, blk, copy, rec) ==
  LET u == PushBack([c.I EXCEPT ![copy] = rec], c.B, MAP_BLOCK(c, blk), copy)
  IN [c EXCEPT !.I = u.I, !.B = u.B]

\* return_block = ir_block_create(), with the PHI when the Return has an operand.
CreateReturnBlock(c, has_operand) ==
  IF c.return_block # NULL THEN c
  ELSE IF ~ has_operand
  THEN [c EXCEPT !.B = Append(@, BlankBlock), !.return_block = Len(c.B) + 1]
  ELSE LET u == PushBack(Append(c.I, [BlankInst EXCEPT !.kind = "PHI"]),
                         Append(c.B, BlankBlock), Len(c.B) + 1, Len(c.I) + 1)
       IN [c EXCEPT !.I = u.I, !.B = u.B, !.return_block = Len(c.B) + 1,
                    !.return_value = Len(c.I) + 1]

\* Add to the PHI and branch: the Return i of callee block blk becomes a
\* Branch to the return block (c already has one).
BranchToReturnBlock(c, blk, i, copy) ==
  LET src == c.I[i]
      rv == c.return_value
      br == [c.I[copy] EXCEPT !.kind = "BRANCH", !.blks = <<c.return_block>>]
  IN IF src.ops = <<>> THEN InsertCopy(c, blk, copy, br)
     ELSE IF rv = NULL THEN [c EXCEPT !.status = "segv"]
     ELSE InsertCopy([c EXCEPT !.I[rv].ops = Append(@, MAP(c, src.ops[1])),
                               !.I[rv].blks = Append(@, PhiIncomingBlock(c, blk)),
                               !.vec[src.id + 1] = c.call],
                     blk, copy, br)

\* Variant: the only Return, at the very end, is inserted instead of dropped.
CopyReturn_KeepsFinalReturn(c, blk, i, copy) ==
  LET src == c.I[i] IN
  IF c.return_block = NULL /\ blk = c.callee_last_block /\ i = c.B[blk].last
  THEN InsertCopy(IF src.ops # <<>>
                  THEN [c EXCEPT !.return_value = MAP(c, src.ops[1]),
                                 !.vec[src.id + 1] = c.call]
                  ELSE c,
                  blk, copy, [BlankInst EXCEPT !.kind = "RETURN"])
  ELSE BranchToReturnBlock(CreateReturnBlock(c, src.ops # <<>>), blk, i, copy)

\* case IR_RETURN of the copy loop, for a call that is not a tail call.
CopyReturn(c, blk, i, copy) ==
  LET src == c.I[i] IN
  IF c.return_block = NULL /\ blk = c.callee_last_block /\ i = c.B[blk].last
  THEN \* The only Return, at the very end: set the return value and drop it.
       IF src.ops # <<>>
       THEN [c EXCEPT !.return_value = MAP(c, src.ops[1]),
                      !.vec[src.id + 1] = c.call,
                      !.I[copy].kind = "RETURN"]
       ELSE [c EXCEPT !.I[copy].kind = "RETURN"]
  ELSE BranchToReturnBlock(CreateReturnBlock(c, src.ops # <<>>), blk, i, copy)

\* The copy of callee instruction src, operands and blocks mapped.
CopyOf(c, src) ==
  [BlankInst EXCEPT
     !.kind = src.kind,
     !.ops = AsSeq([j \in DOMAIN src.ops |-> MAP(c, src.ops[j])]),
     !.blks = AsSeq([j \in DOMAIN src.blks |-> MAP_BLOCK(c, src.blks[j])]),
     !.is_indirect = src.is_indirect,
     !.tail_call = src.tail_call,
     !.callee_instruction =
        IF src.callee_instruction = NULL THEN NULL ELSE MAP(c, src.callee_instruction),
     !.callee = src.callee]

\* Variant: a copied call is recorded as a root.
RecordCall_AsRoot(c, src, copy) ==
  IF src.kind # "CALL" THEN c
  ELSE [c EXCEPT !.hist = Append(@,
          [call |-> copy,
           callee |-> IF src.is_indirect THEN NULL ELSE src.callee,
           inlined_via |-> ROOT_INLINE_ENTRY])]

\* Variant: copied intrinsics are recorded as well.
RecordCall_AlsoIntrinsics(c, src, copy) ==
  IF src.kind \notin {"CALL", "INTRINSIC"} THEN c
  ELSE [c EXCEPT !.hist = Append(@,
          [call |-> copy,
           callee |-> IF src.is_indirect THEN NULL ELSE src.callee,
           inlined_via |-> c.call_history_index])]

\* Record the origin of a copied call.
RecordCall(c, src, copy) ==
  IF src.kind # "CALL" THEN c
  ELSE [c EXCEPT !.hist = Append(@,
          [call |-> copy,
           callee |-> IF src.is_indirect THEN NULL ELSE src.callee,
           inlined_via |-> c.call_history_index])]

\* One iteration of the copy loop: instruction i of callee block blk.
CopyInstruction(c, blk, i) ==
  LET src == c.I[i] IN
  IF c.status # "ok" \/ src.kind = "PARAMETER" THEN c
  ELSE IF src.id + 1 \notin DOMAIN c.vec THEN [c EXCEPT !.status = "oob"]
  ELSE IF src.kind = "RETURN" /\ c.is_tail_call /\ src.ops = <<>>
  THEN \* MAP(inst->operand) of a Return that has no operand.
       [c EXCEPT !.status = "segv"]
  ELSE IF ~ (\A o \in Children(src) : MapInBounds(c, o))
          \/ ~ (\A j \in DOMAIN src.blks : MapBlockInBounds(c, src.blks[j]))
  THEN [c EXCEPT !.status = "oob"]
  ELSE IF src.kind = "RETURN" /\ ~ c.is_tail_call
  THEN CopyReturn(c, blk, i, MAP(c, i))
  ELSE InsertCopy(RecordCall(c, src, MAP(c, i)), blk, MAP(c, i), CopyOf(c, src))

RECURSIVE CopyLoop(_, _)
\* The copy loop over the callee's blocks and instructions.
CopyLoop(c, items) ==
  IF items = <<>> THEN c
  ELSE CopyLoop(CopyInstruction(c, Head(items)[1], Head(items)[2]), Tail(items))

\* Variant: the mapped user is marked as a user of the callee's instruction,
\* not of its copy.
FixUpUses_MarksOriginal(c) ==
  LET pairs == UNION {{<<c.items[k][2], u>> : u \in c.I[c.items[k][2]].users} :
                        k \in DOMAIN c.items}
  IN IF c.status # "ok" THEN c
     ELSE IF \E p \in pairs : ~ MapInBounds(c, p[1]) \/ ~ MapInBounds(c, p[2])
     THEN [c EXCEPT !.status = "oob"]
     ELSE [c EXCEPT
             !.uaf = @ \/ (\E p \in pairs : c.I[p[2]].freed),
             !.I = AsSeq([a \in DOMAIN c.I |->
                      [c.I[a] EXCEPT !.users = @ \cup
                         {MAP(c, p[2]) : p \in {q \in pairs : q[1] = a}}]])]

\* Fix up uses: for every user of every callee instruction, mark the mapped
\* user as a user of the mapped instruction.
FixUpUses(c) ==
  LET pairs == UNION {{<<c.items[k][2], u>> : u \in c.I[c.items[k][2]].users} :
                        k \in DOMAIN c.items}
  IN IF c.status # "ok" THEN c
     ELSE IF \E p \in pairs : ~ MapInBounds(c, p[1]) \/ ~ MapInBounds(c, p[2])
     THEN [c EXCEPT !.status = "oob"]
     ELSE [c EXCEPT
             !.uaf = @ \/ (\E p \in pairs : c.I[p[2]].freed),
             !.I = AsSeq([a \in DOMAIN c.I |->
                      [c.I[a] EXCEPT !.users = @ \cup
                         {MAP(c, p[2]) : p \in {q \in pairs : MAP(c, q[1]) = a}}]])]

\* Fix up the return value by replacing all uses of the call with it.
FixReturnValue(c) ==
  IF c.status # "ok" \/ c.return_value = NULL THEN c
  ELSE [c EXCEPT !.I = ir_replace_uses(ir_remove_use(c.I, c.return_value, c.call),
                                       c.call, c.return_value)]

\* Delete the call; then, to simplify connecting blocks, put the return block
\* after the last block.
DeleteCall(c) ==
  IF c.status # "ok" THEN c
  ELSE IF ~ CanRemove(c.I, c.call) THEN [c EXCEPT !.status = "ice"]
  ELSE LET d == ir_remove(c.I, c.B, c.call)
       IN [c EXCEPT !.I = d.I, !.B = d.B,
                    !.bvec = IF c.return_block # NULL
                             THEN Append(@, c.return_block) ELSE @]

\* IRBlock *last = vector_back(blocks).
LastBlock(c) == c.bvec[Len(c.bvec)]

\* Connect the last inserted instruction with the first one after the call.
SpliceAfterCall(c) ==
  LET lilb == c.B[LastBlock(c)].last IN
  IF c.status # "ok" \/ lilb = NULL \/ c.is_tail_call THEN c
  ELSE [c EXCEPT !.I = AsSeq([a \in DOMAIN c.I |->
          IF a = lilb THEN [c.I[a] EXCEPT !.next = c.call_next]
          ELSE IF a = c.call_next THEN [c.I[a] EXCEPT !.prev = lilb]
          ELSE c.I[a]])]

RECURSIVE DropAfterCall(_, _)
\* The tail-call loop that removes every instruction after the call.
DropAfterCall(c, next) ==
  IF next = NULL \/ c.status # "ok" THEN c
  ELSE IF ~ CanRemove(ir_unmark_usees(c.I, next), next) THEN [c EXCEPT !.status = "ice"]
  ELSE LET u == ir_remove(ir_unmark_usees(c.I, next), c.B, next)
       IN DropAfterCall([c EXCEPT !.I = u.I, !.B = u.B], c.I[next].next)

\* Remove every instruction after the call.
DropTail(c) ==
  IF c.status = "ok" /\ c.call_next # NULL /\ c.is_tail_call
  THEN DropAfterCall(c, c.call_next) ELSE c

\* Connect the last block to the previous successor of the block containing
\* the call, and move the instructions after the call into it.
ConnectLastBlock(c) ==
  LET lastb == LastBlock(c)
      succ == c.B[c.call_block].next
      moved == IF c.is_tail_call THEN {}
               ELSE Range(InstChain(c.I, c.call_next, Len(c.I) + 1))
  IN IF c.status # "ok" \/ lastb = c.call_block THEN c
     ELSE [c EXCEPT
             !.B = AsSeq([b \in DOMAIN c.B |->
                      IF b = lastb THEN [c.B[b] EXCEPT !.next = succ]
                      ELSE IF b = succ THEN [c.B[b] EXCEPT !.prev = lastb]
                      ELSE c.B[b]]),
             !.I = AsSeq([a \in DOMAIN c.I |->
                      IF a \in moved THEN [c.I[a] EXCEPT !.parent_block = lastb]
                      ELSE c.I[a]])]

\* How many of the blocks vector's entries the final loop chains together.
ConnectCount(c) == c.block_count

\* Connect all new blocks.
ConnectNewBlocks(c) ==
  LET n == ConnectCount(c)
      v == c.bvec
  IN IF c.status # "ok" THEN c
     ELSE [c EXCEPT !.B = AsSeq([b \in DOMAIN c.B |->
             [c.B[b] EXCEPT
                !.next = IF \E k \in 1..(n - 1) : v[k] = b
                         THEN v[(CHOOSE k \in 1..(n - 1) : v[k] = b) + 1] ELSE @,
                !.prev = IF \E k \in 2..n : v[k] = b
                         THEN v[(CHOOSE k \in 2..n : v[k] = b) - 1] ELSE @]])]

\* Free unused instructions: reads parent_block of every entry of the vector.
FreeUnused(c) ==
  IF c.status # "ok" THEN c
  ELSE [c EXCEPT
          !.uaf = @ \/ (\E a \in Range(c.vec) : c.I[a].freed),
          !.I = AsSeq([a \in DOMAIN c.I |->
                   IF a \in Range(c.vec) /\ ~ c.I[a].freed /\ c.I[a].parent_block = NULL
                   THEN [c.I[a] EXCEPT !.freed = TRUE] ELSE c.I[a]])]

\* What ir_inline_call leaves when it returns before touching the IR.
Untouched(I, B, hist, status) ==
  [status |-> status, I |-> I, B |-> B, hist |-> hist, uaf |-> FALSE]

\* Variant: the empty-callee test placed after the history insertion.
InlineEmptyCallee_AfterHistory(I, B, hist, call) ==
  IF ~ CanRemove(I, call) THEN Untouched(I, B, hist, "ice")
  ELSE LET u == ir_remove(I, B, call)
       IN Untouched(u.I, u.B,
                    Append(hist, [call |-> call, callee |-> I[call].callee,
                                  inlined_via |-> ROOT_INLINE_ENTRY]),
                    "true")

\* The degenerate case of the callee being empty.
InlineEmptyCallee(I, B, hist, call) ==
  IF ~ CanRemove(I, call) THEN Untouched(I, B, hist, "ice")
  ELSE LET u == ir_remove(I, B, call) IN Untouched(u.I, u.B, hist, "true")

\* The instructions vector: one fresh instruction per callee instruction, the
\* last slots overwritten with the arguments of the call.
InstructionsVector(I, F, call, count) ==
  LET np == Len(F[I[call].callee].parameters)
      args == I[call].ops
  IN AsSeq([k \in 1..count |->
        IF k - 1 >= count - np /\ k - (count - np) \in DOMAIN args
        THEN args[k - (count - np)] ELSE Len(I) + k])

\* Split the call block, allocate the skeleton and number the callee.
Skeleton(I, B, F, hist, call, count, e, block_count) ==
  LET r == I[call]
      s == SplitBlock(I, B, call)
      en == EnumerateIds(
              s.I \o AsSeq([k \in 1..count |-> BlankInst]),
              s.B \o AsSeq([k \in 1..(block_count - 1) |->
                        [BlankBlock EXCEPT !.function = B[r.parent_block].function]]),
              F, r.callee, count)
  IN [status |-> "ok", I |-> en.I, B |-> en.B, uaf |-> FALSE,
      hist |-> IF e = 0
               THEN Append(hist, [call |-> call, callee |-> r.callee,
                                  inlined_via |-> ROOT_INLINE_ENTRY])
               ELSE hist,
      call_history_index |-> IF e = 0 THEN Len(hist) + 1 ELSE e,
      return_block |-> NULL, return_value |-> NULL,
      vec |-> InstructionsVector(I, F, call, count),
      bvec |-> <<r.parent_block>> \o AsSeq([k \in 1..(block_count - 1) |-> Len(B) + k]),
      call |-> call, callee |-> r.callee, is_tail_call |-> r.tail_call,
      call_next |-> r.next, call_block |-> r.parent_block,
      callee_last_block |-> F[r.callee].last, block_count |-> block_count,
      items |-> FunctionItems(I, B, F, r.callee)]

\* The body transplantation, from the copy loop to the end.
Transplant(c) ==
  FreeUnused(ConnectNewBlocks(ConnectLastBlock(DropTail(SpliceAfterCall(
    DeleteCall(FixReturnValue(FixUpUses(CopyLoop(c, c.items)))))))))

\* Variant: the block is split before the history is consulted.
InlineNonEmpty_RefuseAfterSplit(I, B, F, hist, call, count, e) ==
  IF e # 0 /\ hist[e].inlined_via = ROOT_INLINE_ENTRY
  THEN Untouched(I, B, hist, "ice")
  ELSE IF InlineCycle(hist, call, I[call].callee)
  THEN Untouched(SplitBlock(I, B, call).I, SplitBlock(I, B, call).B, hist, "false")
  ELSE Transplant(Skeleton(I, B, F, hist, call, count, e,
                           list_size(B, F, I[call].callee)))

\* The history check of a call to a callee that is not empty; e is the
\* call's history entry (0: none).
InlineNonEmpty(I, B, F, hist, call, count, e) ==
  IF e # 0 /\ hist[e].inlined_via = ROOT_INLINE_ENTRY
  THEN Untouched(I, B, hist, "ice")
  ELSE IF InlineCycle(hist, call, I[call].callee)
  THEN Untouched(I, B, hist, "false")
  ELSE Transplant(Skeleton(I, B, F, hist, call, count, e,
                           list_size(B, F, I[call].callee)))

\* ir_inline_call(ctx, ictx, call). The result's status is "ok" (it returned
\* true), "false" (it returned false), "ice" (an assertion failed), "segv" (a
\* null pointer was dereferenced) or "oob" (the mapping vector was indexed out
\* of bounds); uaf tells that the step read a freed instruction.
InlineWithCount(I, B, F, hist, call, count) ==
  IF count = 0 THEN InlineEmptyCallee(I, B, hist, call)
  ELSE InlineNonEmpty(I, B, F, hist, call, count, HistoryLookup(hist, call))

ir_inline_call(I, B, F, hist, call) ==
  InlineWithCount(I, B, F, hist, call,
                  instruction_count(I, B, F, I[call].callee, TRUE))

--------------------------------------------------------------------------
(* Modules the pass is run on *)

RECURSIVE SumLen(_)
SumLen(ss) == IF ss = <<>> THEN 0 ELSE Len(Head(ss)) + SumLen(Tail(ss))

RECURSIVE Concat(_)
Concat(ss) == IF ss = <<>> THEN <<>> ELSE Head(ss) \o Concat(Tail(ss))

\* Instruction descriptors; operands are instruction numbers within the
\* function, block references are block numbers within the function.
D(kind, ops, blks) == [BlankInst EXCEPT !.kind = kind, !.ops = ops, !.blks = blks]
dPARAM == D("PARAMETER", <<>>, <<>>)
dIMM == D("IMMEDIATE", <<>>, <<>>)
dFUNCREF == D("FUNC_REF", <<>>, <<>>)
dADD(a, b) == D("ADD", <<a, b>>, <<>>)
dRET(v) == D("RETURN", <<v>>, <<>>)
dRETV == D("RETURN", <<>>, <<>>)
dBR(b) == D("BRANCH", <<>>, <<b>>)
dCBR(c, t, e) == D("BRANCH_CONDITIONAL", <<c>>, <<t, e>>)
dPHI(vs, bs) == D("PHI", vs, bs)
dCALL(f, args, tail) == [D("CALL", args, <<>>) EXCEPT !.callee = f, !.tail_call = tail]
dCALLI(ci, args) ==
  [D("CALL", args, <<>>) EXCEPT !.is_indirect = TRUE, !.callee_instruction = ci]
dINTRINSIC(args) == D("INTRINSIC", args, <<>>)

Fn(body) == [is_extern |-> FALSE, attr_forceinline |-> FALSE, body |-> body]
Extern == [is_extern |-> TRUE, attr_forceinline |-> FALSE, body |-> <<>>]

\* The heap a frontend leaves behind for a module description: every list
\* linked, every users set the inverse of the operands.
LoadModule(md) ==
  LET ibase(f) == SumLen(AsSeq([j \in 1..(f - 1) |-> Concat(md[j].body)]))
      bbase(f) == SumLen(AsSeq([j \in 1..(f - 1) |-> md[j].body]))
      off(f, k) == ibase(f) + SumLen(SubSeq(md[f].body, 1, k - 1))
      cell(f, k, p) ==
        LET d == md[f].body[k][p]
            g == off(f, k) + p
        IN [d EXCEPT
              !.ops = AsSeq([j \in DOMAIN d.ops |-> ibase(f) + d.ops[j]]),
              !.blks = AsSeq([j \in DOMAIN d.blks |-> bbase(f) + d.blks[j]]),
              !.callee_instruction = IF @ = NULL THEN NULL ELSE ibase(f) + @,
              !.parent_block = bbase(f) + k,
              !.prev = IF p > 1 THEN g - 1 ELSE NULL,
              !.next = IF p < Len(md[f].body[k]) THEN g + 1 ELSE NULL]
      I0 == Concat(AsSeq([f \in DOMAIN md |->
              Concat([k \in DOMAIN md[f].body |->
                [p \in DOMAIN md[f].body[k] |-> cell(f, k, p)]])]))
      I1 == AsSeq([a \in DOMAIN I0 |->
               [I0[a] EXCEPT !.users = {u \in DOMAIN I0 : a \in Children(I0[u])}]])
      bcell(f, k) ==
        LET n == Len(md[f].body[k]) IN
        [function |-> f,
         first |-> IF n = 0 THEN NULL ELSE off(f, k) + 1,
         last |-> IF n = 0 THEN NULL ELSE off(f, k) + n,
         prev |-> IF k > 1 THEN bbase(f) + k - 1 ELSE NULL,
         next |-> IF k < Len(md[f].body) THEN bbase(f) + k + 1 ELSE NULL,
         id |-> 0]
      B0 == Concat(AsSeq([f \in DOMAIN md |-> [k \in DOMAIN md[f].body |-> bcell(f, k)]]))
      fcell(f) ==
        LET n == Len(Concat(md[f].body)) IN
        [first |-> IF md[f].body = <<>> THEN NULL ELSE bbase(f) + 1,
         last |-> IF md[f].body = <<>> THEN NULL ELSE bbase(f) + Len(md[f].body),
         parameters |-> SelectSeq(AsSeq([p \in 1..n |-> ibase(f) + p]),
                                  LAMBDA a : I0[a].kind = "PARAMETER"),
         is_extern |-> md[f].is_extern,
         attr_forceinline |-> md[f].attr_forceinline]
  IN [I |-> I1, B |-> B0, F |-> AsSeq([f \in DOMAIN md |-> fcell(f)])]

\* f() { return 42 }
FnConst == Fn(<< <<dIMM, dRET(1)>> >>)
\* f(x) { return x }
FnIdent == Fn(<< <<dPARAM, dRET(1)>> >>)
\* f(x) { if x then return 1 else return 2 }
FnIf == Fn(<< <<dPARAM, dCBR(1, 2, 3)>>, <<dIMM, dRET(3)>>, <<dIMM, dRET(5)>> >>)
\* f() { return }
FnVoid == Fn(<< <<dRETV>> >>)
\* f(x) { if x then return else return }
FnVoidIf == Fn(<< <<dPARAM, dCBR(1, 2, 3)>>, <<dRETV>>, <<dRETV>> >>)
\* A function without blocks.
FnEmpty == Fn(<<>>)
\* g() { return f() }
CallerOf(f, tail) == Fn(<< <<dCALL(f, <<>>, tail), dRET(1)>> >>)
\* g() { a = 0; return f(a) }
CallerWithArg(f, tail) == Fn(<< <<dIMM, dCALL(f, <<1>>, tail), dRET(2)>> >>)
\* g() { f(); return }
VoidCallerOf(f, tail) == Fn(<< <<dCALL(f, <<>>, tail), dRETV>> >>)
\* g() { a = 0; f(a); return }
VoidCallerWithArg(f) == Fn(<< <<dIMM, dCALL(f, <<1>>, FALSE), dRETV>> >>)
\* g() { a = 0; c = f(); return c + a }
CallerThenAdd(f) == Fn(<< <<dIMM, dCALL(f, <<>>, FALSE), dADD(2, 1), dRET(3)>> >>)
\* g() { a = 0; f(); return a }  (the call's value is not used)
CallerIgnoring(f) == Fn(<< <<dIMM, dCALL(f, <<>>, FALSE), dRET(1)>> >>)
\* g() { r = &e; (*r)(); e(); return }
CallerIndirectExtern(e) ==
  Fn(<< <<dFUNCREF, dCALLI(1, <<>>), dCALL(e, <<>>, FALSE), dRETV>> >>)
\* k() { r = &e; (*r)(); intrinsic(); e(); return }
FnIndirectIntrinsic(e) ==
  Fn(<< <<dFUNCREF, dCALLI(1, <<>>), dINTRINSIC(<<>>), dCALL(e, <<>>, FALSE), dRETV>> >>)
\* g() { a = f(); b = e(a); return b }
CallerFeedingExtern(f, e) ==
  Fn(<< <<dCALL(f, <<>>, FALSE), dCALL(e, <<1>>, FALSE), dRET(2)>> >>)
\* g() { a = 0; c = f(a); goto next; next: d = h(); return d }
CallerTwoBlocks(f, h) ==
  Fn(<< <<dIMM, dCALL(f, <<1>>, FALSE), dBR(2)>>, <<dCALL(h, <<>>, FALSE), dRET(4)>> >>)

Modules ==
  << <<VoidCallerOf(2, TRUE), FnVoid>>,
     <<FnConst, CallerOf(1, FALSE)>>,
     <<FnIdent, CallerWithArg(1, FALSE)>>,
     <<FnIf, CallerWithArg(1, FALSE)>>,
     <<CallerOf(2, FALSE), CallerOf(1, FALSE)>>,
     <<CallerOf(1, FALSE)>>,
     <<CallerOf(1, TRUE)>>,
     <<CallerThenAdd(1)>>,
     <<Extern, CallerIndirectExtern(1)>>,
     <<FnEmpty, CallerIgnoring(1)>>,
     <<FnConst, CallerOf(1, TRUE)>>,
     <<FnVoid, VoidCallerOf(1, TRUE)>>,
     <<FnVoid, VoidCallerOf(1, FALSE)>>,
     <<FnVoidIf, VoidCallerWithArg(1)>>,
     <<FnIf, CallerWithArg(1, FALSE), CallerOf(2, FALSE)>>,
     <<CallerOf(2, FALSE), CallerWithArg(3, FALSE), FnIf>>,
     <<FnConst, Extern, CallerFeedingExtern(1, 2)>>,
     <<FnIf, FnConst, CallerTwoBlocks(1, 2)>>,
     <<CallerOf(2, FALSE), CallerOf(3, FALSE), CallerOf(1, FALSE)>>,
     <<FnConst, CallerOf(1, FALSE), CallerOf(2, FALSE)>>,
     <<CallerOf(2, FALSE), CallerOf(3, FALSE), FnConst>>,
     <<FnConst, VoidCallerOf(1, TRUE)>>,
     <<CallerThenAdd(1), CallerOf(1, FALSE), FnConst>>,
     <<CallerOf(2, FALSE), CallerOf(3, FALSE), CallerOf(4, FALSE), FnConst>>,
     <<Extern, VoidCallerOf(3, FALSE), VoidCallerOf(4, FALSE),
       FnIndirectIntrinsic(1)>> >>

--------------------------------------------------------------------------
(* run_inliner and inline_calls_in_function *)

NoStep == [op |-> "none", call |-> NULL, callee |-> NULL, f |-> NULL, status |-> "none"]
Snapshot == [insts |-> insts, blocks |-> blocks, history |-> history,
             not_inlinable |-> not_inlinable]

Init ==
  \E m \in DOMAIN Modules :
  \E forced \in 0..Len(Modules[m]) :
  \E th \in (-1)..MaxThreshold :
  \E e \in {"opt_inline", "codegen_process_inline_calls"} :
    LET md == [f \in DOMAIN Modules[m] |->
                 [Modules[m][f] EXCEPT !.attr_forceinline = (f = forced)]]
        h == LoadModule(md)
    IN /\ e = "codegen_process_inline_calls" => th = -1
       /\ insts = h.I
       /\ blocks = h.B
       /\ functions = h.F
       /\ history = <<>>
       /\ not_inlinable = <<>>
       /\ threshold = th
       /\ may_fail = (e = "opt_inline")
       /\ entry = e
       /\ pc = "foreach"
       /\ fidx = 1
       /\ block = NULL
       /\ inst = NULL
       /\ res = [changed |-> FALSE, failed |-> FALSE]
       /\ total = [changed |-> FALSE, failed |-> FALSE]
       /\ diags = <<>>
       /\ last = NoStep
       /\ pre = [insts |-> h.I, blocks |-> h.B, history |-> <<>>, not_inlinable |-> <<>>]
       /\ runs = <<[insts |-> h.I, blocks |-> h.B]>>
       /\ cmp = NoComparison
       /\ node = NoNode

\* Whether this has to be inlined.
MustInline(callee) == functions[callee].attr_forceinline \/ threshold = 0

\* Variant: the threshold is compared with the count that includes parameters.
ShouldInline_CountsParameters(callee) ==
  MustInline(callee)
    \/ threshold >= instruction_count(insts, blocks, functions, callee, TRUE)

\* Inline the call if requested.
ShouldInline(callee) ==
  MustInline(callee)
    \/ threshold >= instruction_count(insts, blocks, functions, callee, FALSE)

\* Variant: a call to an extern function that has to be inlined is not skipped.
SkipReason_ForcedExtern(i) ==
  LET r == insts[i] IN
  IF r.kind # "CALL" THEN "not_call"
  ELSE IF r.is_indirect THEN "indirect"
  ELSE IF functions[r.callee].is_extern /\ ~ MustInline(r.callee) THEN "extern"
  ELSE IF i \in Range(not_inlinable) THEN "not_inlinable"
  ELSE IF ~ ShouldInline(r.callee) THEN "threshold"
  ELSE "none"

\* Why the scan passes over instruction i ("none": it does not).
SkipReason(i) ==
  LET r == insts[i] IN
  IF r.kind # "CALL" THEN "not_call"
  ELSE IF r.is_indirect THEN "indirect"
  ELSE IF functions[r.callee].is_extern THEN "extern"
  ELSE IF i \in Range(not_inlinable) THEN "not_inlinable"
  ELSE IF ~ ShouldInline(r.callee) THEN "threshold"
  ELSE "none"

\* opt_try_convert_to_tail_call(inst): mark a call as a tail call when its only
\* user is the Return that follows it, or when it has no user and a Return
\* without operand follows it.
CanConvertToTailCall(I, i) ==
  LET n == I[i].next IN
  /\ n # NULL
  /\ I[n].kind = "RETURN"
  /\ \/ I[n].ops = <<i>> /\ I[i].users = {n}
     \/ I[n].ops = <<>> /\ I[i].users = {}

\* foreach_val (f, ctx->functions): enter inline_calls_in_function.
EnterFunction ==
  /\ pc = "foreach"
  /\ fidx <= Len(functions)
  /\ block' = functions[fidx].first
  /\ inst' = NULL
  /\ res' = [changed |-> FALSE, failed |-> FALSE]
  /\ history' = <<>>
  /\ pc' = "again"
  /\ UNCHANGED <<insts, blocks, functions, cmp, node, not_inlinable, threshold, may_fail,
                 entry, fidx, total, diags, last, pre, runs>>

\* for (; block; ...): start list_foreach on the block's instructions.
BeginBlock ==
  /\ pc = "again"
  /\ block # NULL
  /\ inst' = blocks[block].first
  /\ pc' = "scan"
  /\ UNCHANGED <<insts, blocks, functions, cmp, node, history, not_inlinable, threshold,
                 may_fail, entry, fidx, block, res, total, diags, last, pre, runs>>

\* list_foreach is over: block = block->next.
EndOfBlock ==
  /\ pc = "scan"
  /\ inst = NULL
  /\ block' = blocks[block].next
  /\ pc' = "again"
  /\ UNCHANGED <<insts, blocks, functions, cmp, node, history, not_inlinable, threshold,
                 may_fail, entry, fidx, inst, res, total, diags, last, pre, runs>>

\* Variant: run_inliner keeps the failed flag of the last function only.
ReturnRes_LastFailedOnly ==
  /\ pc = "again"
  /\ block = NULL
  /\ total' = [changed |-> total.changed \/ res.changed,
               failed |-> res.failed]
  /\ fidx' = fidx + 1
  /\ pc' = "foreach"
  /\ UNCHANGED <<insts, blocks, functions, cmp, node, history, not_inlinable, threshold,
                 may_fail, entry, block, inst, res, diags, last, pre, runs>>

\* return res; run_inliner merges it and moves to the next function.
ReturnRes ==
  /\ pc = "again"
  /\ block = NULL
  /\ total' = [changed |-> total.changed \/ res.changed,
               failed |-> total.failed \/ res.failed]
  /\ fidx' = fidx + 1
  /\ pc' = "foreach"
  /\ UNCHANGED <<insts, blocks, functions, cmp, node, history, not_inlinable, threshold,
                 may_fail, entry, block, inst, res, diags, last, pre, runs>>

\* continue: non-calls, indirect calls, calls to extern functions, calls
\* known not to be inlinable, calls the threshold does not select.
SkipInstruction ==
  /\ pc = "scan"
  /\ inst # NULL
  /\ SkipReason(inst) # "none"
  /\ inst' = insts[inst].next
  /\ last' = [op |-> "skip", call |-> inst, callee |-> insts[inst].callee,
              f |-> fidx, status |-> SkipReason(inst)]
  /\ pre' = Snapshot
  /\ UNCHANGED <<insts, blocks, functions, cmp, node, history, not_inlinable, threshold,
                 may_fail, entry, pc, fidx, block, res, total, diags, runs>>

\* Variant: a self-recursive tail call that has to be inlined is refused.
SelfRecursionOutcome_RefusesTail(must, tail, conv) ==
  IF tail THEN (IF must THEN "failed" ELSE "tail")
  ELSE IF ~ must THEN "left"
  ELSE IF conv THEN "converted" ELSE "failed"

\* Variant: the conversion to a tail call is tried whether or not the call has
\* to be inlined.
SelfRecursionOutcome_AlwaysTry(must, tail, conv) ==
  IF tail THEN "tail"
  ELSE IF conv THEN "converted"
  ELSE IF must THEN "failed" ELSE "left"

\* What the scan does with a selected call whose callee is the caller: "tail"
\* (already a tail call, left alone), "left" (not a tail call and not required
\* to be inlined), "converted" (turned into a tail call) or "failed".
SelfRecursionOutcome(must, tail, conv) ==
  IF tail THEN "tail"
  ELSE IF ~ must THEN "left"
  ELSE IF conv THEN "converted" ELSE "failed"

\* if (f == callee) { ... continue; }
SelfRecursiveCall ==
  /\ pc = "scan"
  /\ inst # NULL
  /\ SkipReason(inst) = "none"
  /\ insts[inst].callee = fidx
  /\ \E status \in {SelfRecursionOutcome(MustInline(fidx), insts[inst].tail_call,
                                         CanConvertToTailCall(insts, inst))} :
        /\ insts' = IF status = "converted"
                    THEN [insts EXCEPT ![inst].tail_call = TRUE] ELSE insts
        /\ res' = IF status = "failed" THEN [res EXCEPT !.failed = TRUE] ELSE res
        /\ not_inlinable' = IF status = "failed"
                            THEN Append(not_inlinable, inst) ELSE not_inlinable
        /\ diags' = IF status = "failed" /\ ~ may_fail
                    THEN Append(diags, [sev |-> "DIAG_ERR",
                           msg |-> "Sorry, could not inline non-tail-recursive call"])
                    ELSE diags
        /\ last' = [op |-> "self", call |-> inst, callee |-> fidx, f |-> fidx,
                    status |-> status]
  /\ inst' = insts[inst].next
  /\ pre' = Snapshot
  /\ UNCHANGED <<blocks, functions, cmp, node, history, threshold, may_fail, entry, pc,
                 fidx, block, total, runs>>

\* Variant: a refused cycle is diagnosed in either mode.
InlineOutcome_AlwaysDiagnoses(out, status) ==
  /\ last' = [op |-> "inline", call |-> inst, callee |-> insts[inst].callee,
              f |-> fidx, status |-> status]
  /\ pc' = IF status \in {"true", "false"} THEN "again" ELSE "aborted"
  /\ insts' = IF status \in {"true", "false"} THEN out.I ELSE insts
  /\ blocks' = IF status \in {"true", "false"} THEN out.B ELSE blocks
  /\ history' = IF status \in {"true", "false"} THEN out.hist ELSE history
  /\ res' = IF status = "true" THEN [res EXCEPT !.changed = TRUE]
            ELSE IF status = "false" THEN [res EXCEPT !.failed = TRUE]
            ELSE res
  /\ not_inlinable' = IF status = "false"
                      THEN Append(not_inlinable, inst) ELSE not_inlinable
  /\ diags' = IF status = "false"
              THEN Append(diags, [sev |-> "DIAG_ERR", msg |-> "Infinite loop detected"])
              ELSE diags

\* Variant: a refused call is not remembered.
InlineOutcome_ForgetsRefusal(out, status) ==
  /\ last' = [op |-> "inline", call |-> inst, callee |-> insts[inst].callee,
              f |-> fidx, status |-> status]
  /\ pc' = IF status \in {"true", "false"} THEN "again" ELSE "aborted"
  /\ insts' = IF status \in {"true", "false"} THEN out.I ELSE insts
  /\ blocks' = IF status \in {"true", "false"} THEN out.B ELSE blocks
  /\ history' = IF status \in {"true", "false"} THEN out.hist ELSE history
  /\ res' = IF status = "true" THEN [res EXCEPT !.changed = TRUE]
            ELSE IF status = "false" THEN [res EXCEPT !.failed = TRUE]
            ELSE res
  /\ not_inlinable' = not_inlinable
  /\ diags' = IF status = "false" /\ ~ may_fail
              THEN Append(diags, [sev |-> "DIAG_ERR", msg |-> "Infinite loop detected"])
              ELSE diags

\* The outcome of the inline step for result out of ir_inline_call.
InlineOutcome(out, status) ==
  /\ last' = [op |-> "inline", call |-> inst, callee |-> insts[inst].callee,
              f |-> fidx, status |-> status]
  /\ pc' = IF status \in {"true", "false"} THEN "again" ELSE "aborted"
  /\ insts' = IF status \in {"true", "false"} THEN out.I ELSE insts
  /\ blocks' = IF status \in {"true", "false"} THEN out.B ELSE blocks
  /\ history' = IF status \in {"true", "false"} THEN out.hist ELSE history
  /\ res' = IF status = "true" THEN [res EXCEPT !.changed = TRUE]
            ELSE IF status = "false" THEN [res EXCEPT !.failed = TRUE]
            ELSE res
  /\ not_inlinable' = IF status = "false"
                      THEN Append(not_inlinable, inst) ELSE not_inlinable
  /\ diags' = IF status = "false" /\ ~ may_fail
              THEN Append(diags, [sev |-> "DIAG_ERR", msg |-> "Infinite loop detected"])
              ELSE diags

\* bool inlined = ir_inline_call(ctx, ictx, inst); ... goto again;
\* A step that read freed memory may also have crashed ("uaf").
InlineCall ==
  /\ pc = "scan"
  /\ inst # NULL
  /\ SkipReason(inst) = "none"
  /\ insts[inst].callee # fidx
  /\ \E out \in {ir_inline_call(insts, blocks, functions, history, inst)} :
       \E status \in {IF out.status = "ok" THEN "true" ELSE out.status, "uaf"} :
         /\ status = "uaf" => out.uaf
         /\ InlineOutcome(out, status)
  /\ pre' = Snapshot
  /\ UNCHANGED <<functions, cmp, node, threshold, may_fail, entry, fidx, block, inst, total, runs>>

\* run_inliner deletes its vectors and returns res.
RunInlinerReturn ==
  /\ pc = "foreach"
  /\ fidx > Len(functions)
  /\ history' = <<>>
  /\ not_inlinable' = <<>>
  /\ pc' = "done"
  /\ UNCHANGED <<insts, blocks, functions, cmp, node, threshold, may_fail, entry, fidx,
                 block, inst, res, total, diags, last, pre, runs>>

\* What opt_inline or codegen_process_inline_calls returns.
ReturnValue == IF entry = "opt_inline" THEN total.changed ELSE ~ total.failed

\* The entry point is called once more on the module the last call left:
\* run_inliner starts with a fresh context, the same threshold and mode.
RunAgain ==
  /\ pc = "done"
  /\ Len(runs) < MaxRuns
  /\ runs' = Append(runs, [insts |-> insts, blocks |-> blocks])
  /\ history' = <<>>
  /\ not_inlinable' = <<>>
  /\ res' = [changed |-> FALSE, failed |-> FALSE]
  /\ total' = [changed |-> FALSE, failed |-> FALSE]
  /\ fidx' = 1
  /\ block' = NULL
  /\ inst' = NULL
  /\ last' = NoStep
  /\ pre' = Snapshot
  /\ pc' = "foreach"
  /\ UNCHANGED <<insts, blocks, functions, cmp, node, threshold, may_fail, entry, diags>>

Next ==
  \/ EnterFunction
  \/ BeginBlock
  \/ EndOfBlock
  \/ ReturnRes
  \/ SkipInstruction
  \/ SelfRecursiveCall
  \/ InlineCall
  \/ RunInlinerReturn
  \/ RunAgain

Spec == Init /\ [][Next]_vars

--------------------------------------------------------------------------
(* Properties of the inliner *)

\* The scan is looking at an instruction.
Examining == pc = "scan" /\ inst # NULL

\* This step hands the examined call to ir_inline_call.
InlineStep == Examining /\ pc' \in {"again", "aborted"}

\* The instructions and blocks the function lists of f reach.
Listed(I, B, f) == Range(FunctionInstructions(I, B, functions, f))

\* The instructions that have x among their operands.
UsesOf(I, x) ==
  {a \in DOMAIN I : ~ I[a].freed /\ I[a].kind # "NONE" /\ x \in Children(I[a])}

\* The cells the last step allocated, and those of them it put in a block.
NewInsts == (Len(pre.insts) + 1)..Len(insts)
Emitted == {a \in NewInsts : ~ insts[a].freed /\ insts[a].parent_block # NULL}
NewBlocks == (Len(pre.blocks) + 1)..Len(blocks)

\* The last step was ir_inline_call returning true on a call that was not a
\* tail call.
InlinedPlainCall ==
  /\ last.op = "inline"
  /\ last.status = "true"
  /\ ~ pre.insts[last.call].tail_call

\* The Returns among the callee's instructions, as positions in list order.
ReturnsOf(I, B, f) ==
  LET is == FunctionInstructions(I, B, functions, f)
  IN {k \in 1..Len(is) : I[is[k]].kind = "RETURN"}

--------------------------------------------------------------------------
\* C1: on every module and threshold the pass terminates by returning: it is
\* never cut short before run_inliner has returned.
C1_PassReturns == pc # "aborted"

\* The history entries reached from entry k by following inlined_via.
RECURSIVE AncestryOf(_, _, _)
AncestryOf(hist, S, n) ==
  IF n = 0 THEN S
  ELSE AncestryOf(hist,
         S \cup {hist[j].inlined_via : j \in {i \in S : hist[i].inlined_via # ROOT_INLINE_ENTRY}},
         n - 1)

\* The call was produced by an inlining of this pass and an entry of its
\* ancestry has this callee.
TracedBackTo(hist, call, callee) ==
  \E k \in DOMAIN hist :
    /\ hist[k].call = call
    /\ hist[k].inlined_via # ROOT_INLINE_ENTRY
    /\ \E j \in AncestryOf(hist, {hist[k].inlined_via}, Len(hist)) :
         hist[j].callee = callee

\* C2: ir_inline_call on a call to a callee that is not empty returns false
\* exactly when the call was produced by an earlier inlining and its ancestry
\* holds the callee; in every other case it inlines and returns true.
C2_RefusesExactlyCycles ==
  (last.op = "inline" /\ Listed(pre.insts, pre.blocks, last.callee) # {})
    => last.status = IF TracedBackTo(pre.history, last.call, last.callee)
                     THEN "false" ELSE "true"

\* C3: a refusal leaves the IR and the history as they were.
C3_RefusalChangesNothing ==
  [][(InlineStep /\ last'.status = "false")
       => /\ insts' = insts
          /\ blocks' = blocks
          /\ history' = history]_vars

C3_Refused ==
  /\ last.op = "inline"
  /\ last.status = "false"
  /\ insts = pre.insts
  /\ insts[last.call].kind = "CALL"

\* An indirect call or a call to an extern function.
NeverInlined(I, a) ==
  /\ I[a].kind = "CALL"
  /\ ~ I[a].freed
  /\ I[a].is_indirect \/ functions[I[a].callee].is_extern

RemainingMustInline ==
  {a \in DOMAIN insts :
     /\ insts[a].kind = "CALL"
     /\ ~ insts[a].freed
     /\ ~ insts[a].is_indirect
     /\ ~ functions[insts[a].callee].is_extern
     /\ MustInline(insts[a].callee)
     /\ insts[a].parent_block # NULL
     /\ blocks[insts[a].parent_block].function # NULL
     /\ blocks[insts[a].parent_block].function # insts[a].callee
     /\ a \in Range(BlockInstructions(insts, blocks, insts[a].parent_block))}

\* C5: a direct call to a function that is forceinline, or any direct call
\* when the threshold is 0, must be inlined: once the pass is over no such
\* call remains. Stated for the calls that are not self-recursive, in the runs
\* in which no call was refused.
C5_NoMustInlineCallRemains ==
  (pc = "done" /\ ~ total.failed) => RemainingMustInline = {}

\* The number of instructions of f that are not parameters.
NonParameterCount(f) ==
  Cardinality({a \in Listed(insts, blocks, f) : insts[a].kind # "PARAMETER"})

\* The scan is at a direct call the threshold alone decides about.
ThresholdDecides ==
  /\ Examining
  /\ insts[inst].kind = "CALL"
  /\ ~ insts[inst].is_indirect
  /\ ~ functions[insts[inst].callee].is_extern
  /\ inst \notin Range(not_inlinable)
  /\ ~ functions[insts[inst].callee].attr_forceinline
  /\ threshold # 0

\* C6: a direct call that does not have to be inlined is selected exactly
\* when the threshold is at least the number of non-parameter instructions of
\* the callee; with threshold -1 no such call is selected.
C6_ThresholdSelects ==
  [][ThresholdDecides
       => /\ last'.call = inst
          /\ last'.op \in {"inline", "self"}
               <=> threshold >= NonParameterCount(insts[inst].callee)
          /\ threshold = -1 => (last'.op = "skip" /\ insts' = insts)]_vars

C6_SelectedByThreshold ==
  /\ last.op = "inline"
  /\ last.status = "true"
  /\ threshold > 0
  /\ ~ functions[last.callee].attr_forceinline
  /\ insts[last.call].freed

\* C7, as stated: a selected self-recursive call is inlined exactly when it is
\* marked tail_call.
C7_TailSelfCallInlined ==
  last.op = "self" => (insts[last.call].freed <=> pre.insts[last.call].tail_call)

\* C7, amended: a self-recursive call is never inlined. A selected one that is
\* marked tail_call is left alone; one that is not is converted to a tail call
\* when it has to be inlined and can be converted, is refused when it has to
\* be inlined and cannot, and is left alone otherwise.
C7_SelfCallsNeverInlined ==
  /\ last.op = "inline" => last.callee # last.f
  /\ last.op = "self"
       => /\ last.callee = last.f
          /\ ~ insts[last.call].freed
          /\ blocks = pre.blocks
          /\ insts = [pre.insts EXCEPT
                        ![last.call].tail_call = @ \/ last.status = "converted"]
          /\ last.status = "tail" <=> pre.insts[last.call].tail_call
          /\ last.status = "converted"
               => MustInline(last.f) /\ CanConvertToTailCall(pre.insts, last.call)
          /\ last.status = "failed"
               => MustInline(last.f) /\ ~ CanConvertToTailCall(pre.insts, last.call)
          /\ last.status = "left" => ~ MustInline(last.f)

C7_TailSelfCallLeft ==
  /\ last.op = "self"
  /\ last.status = "tail"
  /\ insts[last.call].kind = "CALL"
  /\ ~ insts[last.call].freed
  /\ insts[last.call].callee = last.f

\* block's list without instruction x.
Without(is, x) == SelectSeq(is, LAMBDA a : a # x)

\* C8: inlining a call without users to a callee without instructions removes
\* the call and nothing else, records nothing in the history and succeeds.
C8_EmptyCalleeRemovesOnlyTheCall ==
  [][(/\ InlineStep
      /\ Listed(insts, blocks, insts[inst].callee) = {}
      /\ insts[inst].users = {})
       => /\ last'.status = "true"
          /\ res'.changed
          /\ history' = history
          /\ Len(insts') = Len(insts)
          /\ Len(blocks') = Len(blocks)
          /\ insts'[inst].freed
          /\ \A a \in DOMAIN insts \ {inst} :
               /\ insts'[a].kind = insts[a].kind
               /\ insts'[a].ops = insts[a].ops
               /\ insts'[a].blks = insts[a].blks
               /\ insts'[a].users = insts[a].users \ {inst}
               /\ insts'[a].parent_block = insts[a].parent_block
               /\ insts'[a].freed = insts[a].freed
          /\ \A b \in DOMAIN blocks :
               /\ BlockInstructions(insts', blocks', b)
                    = Without(BlockInstructions(insts, blocks, b), inst)
               /\ blocks'[b].function = blocks[b].function
               /\ blocks'[b].prev = blocks[b].prev
               /\ blocks'[b].next = blocks[b].next]_vars

C8_EmptyCalleeInlined ==
  /\ last.op = "inline"
  /\ last.status = "true"
  /\ Listed(pre.insts, pre.blocks, last.callee) = {}
  /\ pre.insts[last.call].users = {}
  /\ insts[last.call].freed

\* The callee's only Return is the last instruction of its last block.
SingleFinalReturn(I, B, f) ==
  ReturnsOf(I, B, f) = {Len(FunctionInstructions(I, B, functions, f))}

\* Every use of the call became a use of v.
UsesReplacedBy(v) ==
  /\ UsesOf(insts, last.call) = {}
  /\ \A a \in UsesOf(pre.insts, last.call) :
       insts[a].ops = [j \in DOMAIN pre.insts[a].ops |->
                         IF pre.insts[a].ops[j] = last.call THEN v
                         ELSE pre.insts[a].ops[j]]

\* The value a Return of the callee stands for in the caller: the argument of
\* the call when it returns a parameter, a copy of the returned instruction
\* otherwise.
MappedReturnValue(ret, v) ==
  LET r == pre.insts[ret].ops[1]
      ps == functions[last.callee].parameters
  IN IF pre.insts[r].kind = "PARAMETER"
     THEN \E p \in DOMAIN ps : ps[p] = r /\ v = pre.insts[last.call].ops[p]
     ELSE v \in Emitted /\ insts[v].kind = pre.insts[r].kind

\* C9: when the callee's only Return ends its last block and the call is not
\* a tail call, inlining is a value substitution: no return block and no PHI
\* are made, nothing is emitted for the Return, and every use of the call
\* becomes a use of the mapped returned value.
C9_SingleReturnCollapses ==
  (InlinedPlainCall /\ SingleFinalReturn(pre.insts, pre.blocks, last.callee))
    => /\ Len(blocks) = Len(pre.blocks)
                          + list_size(pre.blocks, functions, last.callee) - 1
       /\ Cardinality(Emitted)
            = Cardinality({a \in Listed(pre.insts, pre.blocks, last.callee) :
                             pre.insts[a].kind \notin {"PARAMETER", "RETURN"}})
       /\ \A k \in ReturnsOf(pre.insts, pre.blocks, last.callee) :
            LET ret == FunctionInstructions(pre.insts, pre.blocks, functions,
                                            last.callee)[k]
            IN pre.insts[ret].ops # <<>>
                 => \E v \in DOMAIN insts : MappedReturnValue(ret, v) /\ UsesReplacedBy(v)

\* C10: when the callee has several Returns with a value, inlining makes one
\* return block, turns every inlined Return into a Branch to it and makes one
\* PHI in it, with one incoming value per Return whose block is the block of
\* the caller that holds the copy of that Return; every use of the call
\* becomes a use of the PHI.
C10_MultipleReturnsMeetInPhi ==
  (/\ InlinedPlainCall
   /\ Cardinality(ReturnsOf(pre.insts, pre.blocks, last.callee)) > 1
   /\ \A a \in Listed(pre.insts, pre.blocks, last.callee) :
        pre.insts[a].kind = "RETURN" => pre.insts[a].ops # <<>>)
    => \E rb \in NewBlocks : \E phi \in Emitted :
         LET jumps == {a \in Emitted : /\ insts[a].kind = "BRANCH"
                                       /\ insts[a].blks = <<rb>>}
         IN /\ Len(blocks) = Len(pre.blocks)
                               + list_size(pre.blocks, functions, last.callee)
            /\ \A a \in Emitted : insts[a].kind # "RETURN"
            /\ Cardinality(jumps)
                 = Cardinality(ReturnsOf(pre.insts, pre.blocks, last.callee))
            /\ insts[phi].kind = "PHI"
            /\ insts[phi].parent_block = rb
            /\ Len(insts[phi].ops) = Cardinality(jumps)
            /\ {insts[phi].blks[k] : k \in DOMAIN insts[phi].blks}
                 = {insts[a].parent_block : a \in jumps}
            /\ UsesReplacedBy(phi)

--------------------------------------------------------------------------
\* The last step was ir_inline_call on a tail call to a callee that is not
\* empty, and it did not refuse.
TailCallStep ==
  /\ last.op = "inline"
  /\ pre.insts[last.call].tail_call
  /\ last.status # "false"
  /\ Listed(pre.insts, pre.blocks, last.callee) # {}

\* The instructions that followed the call in its block.
FollowingCall ==
  Range(InstChain(pre.insts, pre.insts[last.call].next, Len(pre.insts) + 1))

\* How many of the set's instructions are of the kind.
CountKind(I, S, kind) == Cardinality({a \in S : I[a].kind = kind})

\* What C11 says of a tail call that has been inlined.
TailCallInlined ==
  /\ last.status = "true"
  /\ Len(blocks) = Len(pre.blocks)
                     + list_size(pre.blocks, functions, last.callee) - 1
  /\ \A kind \in {"RETURN", "PHI", "BRANCH"} :
       CountKind(insts, Emitted, kind)
         = CountKind(pre.insts, Listed(pre.insts, pre.blocks, last.callee), kind)
  /\ \A a \in FollowingCall :
       /\ insts[a].freed
       /\ \A v \in DOMAIN insts : ~ insts[v].freed => a \notin insts[v].users

\* C11: when the inlined call is a tail call, every inlined Return stays a
\* Return (no return block, no PHI, no Branch in its place) and all the
\* instructions that followed the call are dropped, their operand uses
\* unmarked.
C11_TailCallKeepsReturns == TailCallStep => TailCallInlined

--------------------------------------------------------------------------
\* The instructions of block b as its first and last pointers delimit them.
Span(I, B, b) ==
  LET is == BlockInstructions(I, B, b)
      at == {k \in 1..Len(is) : is[k] = B[b].last}
  IN IF at = {} THEN is ELSE SubSeq(is, 1, CHOOSE k \in at : TRUE)

\* Block b ends in a terminator and holds no other one.
WellTerminated(I, B, b) ==
  LET sp == Span(I, B, b)
  IN /\ sp # <<>>
     /\ \A k \in 1..Len(sp) : (I[sp[k]].kind \in Terminators) <=> (k = Len(sp))

\* The blocks of function f.
BlocksOf(B, f) == {b \in DOMAIN B : B[b].function = f}

\* The last step was ir_inline_call returning true.
Inlined == last.op = "inline" /\ last.status = "true"

\* C12: if every block of the caller and of the callee ends in exactly one
\* terminator before an inline step, so does every block of the caller after
\* it, the return block and the block that receives the instructions after
\* the call included.
C12_BlocksStayTerminated ==
  (/\ Inlined
   /\ \A b \in BlocksOf(pre.blocks, last.f) \cup BlocksOf(pre.blocks, last.callee) :
        WellTerminated(pre.insts, pre.blocks, b))
    => \A b \in BlocksOf(blocks, last.f) \cup NewBlocks :
         WellTerminated(insts, blocks, b)

\* The users sets of the instructions in S agree with their operands.
UsersBidirectional(I, S) ==
  \A u \in S : \A v \in S : (v \in Children(I[u])) <=> (u \in I[v].users)

\* C13: after an inline step that returned true, for all instructions u and
\* v the caller lists, v is an operand of u (an incoming value of a PHI
\* included) if and only if u is in v's users set, and no users set of the
\* caller names the removed call.
C13_UsersStayBidirectional ==
  (Inlined /\ UsersBidirectional(pre.insts, Listed(pre.insts, pre.blocks, last.f))
           /\ UsersBidirectional(pre.insts, Listed(pre.insts, pre.blocks, last.callee)))
    => /\ UsersBidirectional(insts, Listed(insts, blocks, last.f))
       /\ \A v \in Listed(insts, blocks, last.f) : last.call \notin insts[v].users

\* The blocks holding a branch to b: the predecessors of b in the
\* control-flow graph.
Preds(I, b) ==
  {I[a].parent_block : a \in {x \in DOMAIN I :
      /\ ~ I[x].freed
      /\ I[x].parent_block # NULL
      /\ I[x].kind \in {"BRANCH", "BRANCH_CONDITIONAL"}
      /\ b \in Range(I[x].blks)}}

\* PHI p has one incoming pair for each predecessor of its block and none
\* for any other block.
PhiMatchesPreds(I, p) ==
  /\ Len(I[p].blks) = Len(I[p].ops)
  /\ Range(I[p].blks) = Preds(I, I[p].parent_block)
  /\ Len(I[p].blks) = Cardinality(Preds(I, I[p].parent_block))

\* The PHIs placed in the blocks in S.
PhisIn(I, S) ==
  {p \in DOMAIN I : ~ I[p].freed /\ I[p].kind = "PHI" /\ I[p].parent_block \in S}

\* C14: after an inline step that returned true on well-formed input, every
\* PHI in a block of the caller, the blocks the step created included, has
\* exactly one incoming pair per control-flow predecessor of its block and
\* names only those predecessors.
C14_PhisMatchPredecessors ==
  (Inlined /\ \A p \in PhisIn(pre.insts, BlocksOf(pre.blocks, last.f)
                                        \cup BlocksOf(pre.blocks, last.callee)) :
                 PhiMatchesPreds(pre.insts, p))
    => \A p \in PhisIn(insts, BlocksOf(blocks, last.f) \cup NewBlocks) :
         PhiMatchesPreds(insts, p)

\* run_inliner is running, or has run, on the module a previous run produced.
SecondRun == Len(runs) > 1

\* C15: a second run with the same threshold on the module the first run
\* produced inlines no call and reports changed = false.
C15_SecondRunChangesNothing ==
  SecondRun => /\ ~ (last.op = "inline" /\ last.status = "true")
               /\ ~ res.changed
               /\ ~ total.changed

\* The step refuses the examined call: ir_inline_call returns false, or a
\* self-recursive call that has to be inlined cannot become a tail call.
RefusalStep == Examining /\ last'.call = inst /\ last'.status \in {"false", "failed"}

\* run_inliner neither returns nor is entered in this step.
SamePass == pc' # "done" /\ runs' = runs

\* C16: every refused call is put into the not-inlinable set; the set loses
\* no call while the pass runs, whichever function is being processed; and a
\* call in the set that the scan comes across is passed over, never handed
\* to ir_inline_call again.
C16_RefusedCallsAreNotRetried ==
  [][/\ RefusalStep => inst \in Range(not_inlinable')
     /\ SamePass => Range(not_inlinable) \subseteq Range(not_inlinable')
     /\ (Examining /\ inst \in Range(not_inlinable))
          => /\ last' = [op |-> "skip", call |-> inst, callee |-> insts[inst].callee,
                         f |-> fidx, status |-> "not_inlinable"]
             /\ UNCHANGED <<insts, blocks, history, not_inlinable>>]_vars

\* The scan meets a call that was refused earlier in the pass and passes
\* over it.
C16_RefusedCallSkipped ==
  /\ last.op = "skip"
  /\ last.status = "not_inlinable"
  /\ last.call \in Range(not_inlinable)
  /\ insts = pre.insts

\* The step appends one diagnostic of severity sev and nothing else.
Diagnoses(sev) ==
  /\ Len(diags') = Len(diags) + 1
  /\ SubSeq(diags', 1, Len(diags)) = diags
  /\ diags'[Len(diags')].sev = sev

\* C17 as stated: every refusal is surfaced, as a warning when the pass is
\* run by opt_inline and as an error when it is run by
\* codegen_process_inline_calls.
C17_RefusalWarnsOrErrs ==
  [][RefusalStep => Diagnoses(IF may_fail THEN "DIAG_WARN" ELSE "DIAG_ERR")]_vars

\* C17, amended: a refusal issues exactly one error diagnostic when the pass
\* is run by codegen_process_inline_calls and no diagnostic at all when it is
\* run by opt_inline; no other step issues a diagnostic.
C17_RefusalErrsOnlyInStrictMode ==
  [][/\ (RefusalStep /\ ~ may_fail) => Diagnoses("DIAG_ERR")
     /\ (RefusalStep /\ may_fail) => diags' = diags
     /\ ~ RefusalStep => diags' = diags]_vars

\* Both kinds of refusal have happened, in strict mode with an error each or
\* in permissive mode without any diagnostic.
C17_BothRefusalsSeen ==
  /\ last.op = "inline"
  /\ last.status = "false"
  /\ \E k \in 1..Len(not_inlinable) :
       insts[not_inlinable[k]].callee
         = blocks[insts[not_inlinable[k]].parent_block].function
  /\ Len(not_inlinable) = 2
  /\ IF may_fail THEN diags = <<>>
     ELSE /\ Len(diags) = 2
          /\ \A k \in 1..2 : diags[k].sev = "DIAG_ERR"

\* The scan is looking at a direct call of the function being processed to
\* itself that is marked as a tail call.
ExaminingTailSelfCall ==
  /\ Examining
  /\ insts[inst].kind = "CALL"
  /\ ~ insts[inst].is_indirect
  /\ insts[inst].callee = fidx
  /\ insts[inst].tail_call

\* C18: a direct self-recursive call already marked tail_call is passed over:
\* the step changes no instruction and no block, sets neither changed nor
\* failed, adds nothing to the not-inlinable set, issues no diagnostic, and
\* the scan moves on to the next instruction.
C18_TailSelfCallLeftAlone ==
  [][ExaminingTailSelfCall
       => /\ UNCHANGED <<insts, blocks, res, total, not_inlinable, diags, history>>
          /\ inst' = insts[inst].next
          /\ pc' = "scan"
          /\ last'.status \in {"tail", "threshold"}]_vars

\* A self-recursive tail call that has to be inlined was examined and left in
\* place, with no failure recorded.
C18_ForcedTailSelfCallKept ==
  /\ last.op = "self"
  /\ last.status = "tail"
  /\ MustInline(last.f)
  /\ ~ insts[last.call].freed
  /\ insts[last.call].parent_block # NULL
  /\ insts = pre.insts
  /\ last.call \notin Range(not_inlinable)
  /\ ~ res.failed
  /\ ~ res.changed

\* What MAP and MAP_BLOCK stood for during the last step, read off the ids
\* the step left on the callee: the copy of callee instruction x (the
\* argument, for a parameter) and the copy of callee block b (the call
\* block, for the first one).
CopyOfInstruction(x) ==
  IF pre.insts[x].kind = "PARAMETER"
  THEN LET ps == functions[last.callee].parameters
       IN pre.insts[last.call].ops[CHOOSE p \in DOMAIN ps : ps[p] = x]
  ELSE Len(pre.insts) + insts[x].id + 1

CopyOfBlock(b) ==
  IF b = functions[last.callee].first THEN pre.insts[last.call].parent_block
  ELSE Len(pre.blocks) + blocks[b].id

MapSeq(Op(_), s) == AsSeq([k \in DOMAIN s |-> Op(s[k])])

\* The callee instructions whose copies are ordinary copies: not parameters,
\* and not Returns, which are dropped or turned into branches.
PlainlyCopied ==
  {x \in Listed(pre.insts, pre.blocks, last.callee) :
     pre.insts[x].kind \notin {"PARAMETER", "RETURN"}}

CopiesFollowTheMap ==
  \A x \in PlainlyCopied :
    LET c == CopyOfInstruction(x) IN
    /\ c \in Emitted
    /\ insts[c].kind = pre.insts[x].kind
    /\ insts[c].ops = MapSeq(CopyOfInstruction, pre.insts[x].ops)
    /\ insts[c].blks = MapSeq(CopyOfBlock, pre.insts[x].blks)

\* The instructions of the caller after the step, and what they refer to.
CallerInstructions == Listed(insts, blocks, last.f) \cup Emitted

NoReferenceInto(I, S, f) ==
  \A a \in S :
    /\ Children(I[a]) \cap Listed(pre.insts, pre.blocks, f) = {}
    /\ Range(I[a].blks) \cap BlocksOf(pre.blocks, f) = {}

\* C19: after an inline step that returned true, every copy has the copies
\* of its original's operands as operands, a parameter being replaced by the
\* matching argument of the call, and the copies of its original's blocks as
\* block references, the callee's first block being replaced by the call
\* block; and no instruction of the caller has an operand or a block
\* reference in the callee.
C19_CopiesAreRemapped ==
  (Inlined /\ NoReferenceInto(pre.insts, Listed(pre.insts, pre.blocks, last.f), last.callee))
    => /\ CopiesFollowTheMap
       /\ NoReferenceInto(insts, CallerInstructions, last.callee)

\* Block list bs is linked both ways: prev is the inverse of next.
DoublyLinked(B, bs) ==
  \A k \in 1..Len(bs) : B[bs[k]].prev = (IF k = 1 THEN NULL ELSE bs[k - 1])

\* The caller's block list before the step with the blocks the step created,
\* in the order of their creation (the copies in callee order, then the
\* return block), put in right after the call block.
ExpectedBlocks ==
  LET old == FunctionBlocks(pre.blocks, functions, last.f)
      at == CHOOSE k \in 1..Len(old) : old[k] = pre.insts[last.call].parent_block
  IN SubSeq(old, 1, at)
       \o AsSeq([k \in 1..(Len(blocks) - Len(pre.blocks)) |-> Len(pre.blocks) + k])
       \o SubSeq(old, at + 1, Len(old))

\* C20: after an inline step that returned true, following next from the
\* caller's first block visits the blocks up to the call block, then the
\* copies of the callee's further blocks in callee order, then the return
\* block if one was created, then the former successors of the call block;
\* prev is the inverse of next along that list.
C20_NewBlocksAreChained ==
  (Inlined /\ pre.insts[last.call].parent_block
                \in Range(FunctionBlocks(pre.blocks, functions, last.f))
           /\ DoublyLinked(pre.blocks, FunctionBlocks(pre.blocks, functions, last.f)))
    => /\ FunctionBlocks(blocks, functions, last.f) = ExpectedBlocks
       /\ DoublyLinked(blocks, FunctionBlocks(blocks, functions, last.f))

\* The instructions that followed the call in its block, in order.
AfterCall == InstChain(pre.insts, pre.insts[last.call].next, Len(pre.insts) + 1)

\* The last inlined block: the last block the step created, else the call
\* block.
LastInlinedBlock ==
  IF NewBlocks # {} THEN Len(blocks) ELSE pre.insts[last.call].parent_block

\* Sequence s ends with sequence t.
EndsWith(s, t) ==
  Len(t) <= Len(s) /\ SubSeq(s, Len(s) - Len(t) + 1, Len(s)) = t

\* C21: after an inline step of a call that is not a tail call, the
\* instructions that followed the call are still there, in their order, as
\* the final instructions of the last inlined block and with that block as
\* their parent.
C21_TailOfBlockReattached ==
  (Inlined /\ ~ pre.insts[last.call].tail_call)
    => /\ EndsWith(BlockInstructions(insts, blocks, LastInlinedBlock), AfterCall)
       /\ \A a \in Range(AfterCall) :
            ~ insts[a].freed /\ insts[a].parent_block = LastInlinedBlock

\* The history index of the entry of the inlined call: the entry it had, or
\* the root entry the step appends.
EntryOfCall ==
  IF HistoryLookup(pre.history, last.call) # 0
  THEN HistoryLookup(pre.history, last.call)
  ELSE Len(pre.history) + 1

RootEntry ==
  IF HistoryLookup(pre.history, last.call) # 0 THEN <<>>
  ELSE << [call |-> last.call, callee |-> last.callee,
           inlined_via |-> ROOT_INLINE_ENTRY] >>

\* The calls of the callee, in the order the copy loop meets them.
CalleeCalls ==
  SelectSeq(FunctionInstructions(pre.insts, pre.blocks, functions, last.callee),
            LAMBDA x : pre.insts[x].kind = "CALL")

EntryOfCopy(x) ==
  [call |-> CopyOfInstruction(x),
   callee |-> IF pre.insts[x].is_indirect THEN NULL ELSE pre.insts[x].callee,
   inlined_via |-> EntryOfCall]

\* The step inlined a callee that has instructions.
InlinedBody == Inlined /\ Listed(pre.insts, pre.blocks, last.callee) # {}

\* What the last step appended to the history.
CopiedCallsRecorded ==
  InlinedBody
    => history = pre.history \o RootEntry \o MapSeq(EntryOfCopy, CalleeCalls)

\* C22: an inline step that copies a callee appends to the history a root
\* entry for the inlined call if it had no entry, and then one entry for
\* each call of the callee, in order: the copy, its target function (none
\* for an indirect call), and the index of the inlined call's entry as
\* inlined_via. Nothing else is appended; intrinsics are not recorded.
C22_CopiedCallsAreRecorded == [][InlineStep => CopiedCallsRecorded']_vars

\* A callee with a direct call, an indirect call and an intrinsic was
\* inlined through a call that was itself a recorded copy.
C22_MixedCallsRecorded ==
  /\ InlinedBody
  /\ HistoryLookup(pre.history, last.call) # 0
  /\ \E x \in Range(CalleeCalls) : pre.insts[x].is_indirect
  /\ \E x \in Range(CalleeCalls) : ~ pre.insts[x].is_indirect
  /\ \E x \in Listed(pre.insts, pre.blocks, last.callee) :
       /\ pre.insts[x].kind = "INTRINSIC"
       /\ insts[CopyOfInstruction(x)].kind = "INTRINSIC"
       /\ \A k \in 1..Len(history) : history[k].call # CopyOfInstruction(x)
  /\ Len(history) = Len(pre.history) + 2
  /\ history[Len(history)].inlined_via = HistoryLookup(pre.history, last.call)

\* C23: whenever ir_inline_call deletes the call, the call has no users
\* left: the deletion never finds a user.
C23_CallHasNoUsersWhenDeleted == ~ (last.op = "inline" /\ last.status = "ice")

\* instruction_count(f, true) before and after the last step.
CountBefore(f) == instruction_count(pre.insts, pre.blocks, functions, f, TRUE)
CountAfter(f) == instruction_count(insts, blocks, functions, f, TRUE)

InlinedOneBlock ==
  /\ Inlined
  /\ ~ pre.insts[last.call].tail_call
  /\ list_size(pre.blocks, functions, last.callee) = 1

RunStart == runs[Len(runs)].insts

\* Some call was inlined since run_inliner was entered: every step that
\* returns true frees its call.
InlinedInRun ==
  \E a \in DOMAIN insts :
    /\ insts[a].freed
    /\ insts[a].kind = "CALL"
    /\ a \in DOMAIN RunStart => ~ RunStart[a].freed

\* The flags collected so far in the running call of run_inliner.
FlagsSoFar == [changed |-> total.changed \/ res.changed,
               failed |-> total.failed \/ res.failed]

\* C25: while run_inliner runs, the flags collected so far say changed
\* exactly when some call was inlined in this run and failed exactly when
\* some call was refused in this run (the refused calls are those in the
\* not-inlinable set); when it returns, the result carries the same two
\* facts, opt_inline returns changed and codegen_process_inline_calls
\* returns the negation of failed.
C25_ResultIsFaithful ==
  [][/\ pc' \in {"foreach", "again", "scan"}
          => /\ FlagsSoFar'.changed <=> InlinedInRun'
             /\ FlagsSoFar'.failed <=> (not_inlinable' # <<>>)
     /\ (pc' = "done" /\ pc # "done")
          => /\ total'.changed <=> InlinedInRun'
             /\ total'.failed <=> (not_inlinable # <<>>)
             /\ ReturnValue' = IF entry = "opt_inline" THEN InlinedInRun'
                               ELSE not_inlinable = <<>>]_vars

\* run_inliner returned after a function in which a call was refused and a
\* later function in which none was, having inlined a call as well.
C25_ChangedAndFailed ==
  /\ pc = "done"
  /\ total.changed
  /\ total.failed
  /\ ~ res.failed
  /\ InlinedInRun

\* The ancestry chain of history entry k: k and the entries reached from it
\* through inlined_via.
ChainOf(k) == AncestryOf(history, {k}, Len(history))

\* The entries whose call was actually inlined (a successful step frees it).
InlinedEntries == {k \in DOMAIN history : insts[history[k].call].freed}

\* C28: every history entry is a root or names a strictly earlier entry as
\* inlined_via; along the ancestry chain of every call that was inlined the
\* callees are pairwise distinct functions, so that no chain is longer than
\* the number of functions.
C28_HistoryIsWellFounded ==
  /\ \A k \in DOMAIN history :
       \/ history[k].inlined_via = ROOT_INLINE_ENTRY
       \/ history[k].inlined_via \in 1..(k - 1)
  /\ \A k \in InlinedEntries :
       /\ \A i \in ChainOf(k) : \A j \in ChainOf(k) :
            /\ history[i].callee \in DOMAIN functions
            /\ i # j => history[i].callee # history[j].callee
       /\ Cardinality(ChainOf(k)) <= Len(functions)

\* A call two inlinings deep was inlined: its chain has three entries.
C28_ChainOfThree ==
  \E k \in InlinedEntries :
    /\ Cardinality(ChainOf(k)) = 3
    /\ Cardinality({history[i].callee : i \in ChainOf(k)}) = 3

\* The instructions and blocks that belonged, before the last step, to a
\* function other than the one the step worked on.
OtherBlocks ==
  {b \in DOMAIN pre.blocks : pre.blocks[b].function \notin {NULL, last.f}}
OtherInstructions ==
  {a \in DOMAIN pre.insts : pre.insts[a].parent_block \in OtherBlocks}

\* C29: an inline step that returned true leaves every function other than
\* the caller as it was, the callee included: the same block lists, the same
\* instructions in the same order with the same operands and users sets; at
\* most the scratch ids of blocks and instructions differ, and no users set
\* of such an instruction gains an instruction.
C29_OtherFunctionsUntouched ==
  Inlined =>
    /\ \A a \in OtherInstructions :
         [insts[a] EXCEPT !.id = 0] = [pre.insts[a] EXCEPT !.id = 0]
    /\ \A b \in OtherBlocks :
         [blocks[b] EXCEPT !.id = 0] = [pre.blocks[b] EXCEPT !.id = 0]
    /\ \A f \in DOMAIN functions \ {last.f} :
         FunctionInstructions(insts, blocks, functions, f)
           = FunctionInstructions(pre.insts, pre.blocks, functions, f)

\* A callee with parameters, several blocks and used values was inlined and
\* only its scratch ids changed.
C29_CalleeOnlyRenumbered ==
  /\ Inlined
  /\ last.callee # last.f
  /\ list_size(pre.blocks, functions, last.callee) > 1
  /\ functions[last.callee].parameters # <<>>
  /\ \E a \in Listed(pre.insts, pre.blocks, last.callee) :
       /\ insts[a].id # pre.insts[a].id
       /\ insts[a].users # {}
       /\ insts[a].users = pre.insts[a].users

\* The entry the history had for the call the last step was invoked on (0
\* when it had none).
EntryBefore == HistoryLookup(pre.history, last.call)

\* C30: whenever ir_inline_call is invoked on a call that already has a
\* history entry, the entry is not a root: the assertion of the lookup holds.
C30_LookupNeverFindsRoot ==
  (last.op = "inline" /\ EntryBefore # 0)
    => pre.history[EntryBefore].inlined_via \in 1..(EntryBefore - 1)

\* ir_inline_call was invoked on a recorded copy while the root call whose
\* inlining produced it is in the history and gone from the function.
C30_InvokedOnRecordedCopy ==
  /\ last.op = "inline"
  /\ EntryBefore # 0
  /\ \E r \in DOMAIN pre.history :
       /\ pre.history[r].inlined_via = ROOT_INLINE_ENTRY
       /\ pre.insts[pre.history[r].call].freed
       /\ pre.history[r].call \notin Listed(pre.insts, pre.blocks, last.f)
       /\ r \in AncestryOf(pre.history, {EntryBefore}, Len(pre.history))


--------------------------------------------------------------------------
(* Type equality of the Glint and the Intercept front ends *)

\* The inliner does not run.
InlinerIdle ==
  /\ insts = <<>>
  /\ blocks = <<>>
  /\ functions = <<>>
  /\ history = <<>>
  /\ not_inlinable = <<>>
  /\ threshold = 0
  /\ may_fail = FALSE
  /\ entry = "none"
  /\ fidx = 1
  /\ block = NULL
  /\ inst = NULL
  /\ res = [changed |-> FALSE, failed |-> FALSE]
  /\ total = [changed |-> FALSE, failed |-> FALSE]
  /\ diags = <<>>
  /\ last = NoStep
  /\ pre = [insts |-> <<>>, blocks |-> <<>>, history |-> <<>>, not_inlinable |-> <<>>]
  /\ runs = <<>>

inlinerVars == <<insts, blocks, functions, history, not_inlinable, threshold,
                 may_fail, entry, fidx, block, inst, res, total, diags, last,
                 pre, runs>>

\* A Type object. tag is the builtin kind, the ffi kind, the array dimension
\* or the bit width; decl tells whether a struct has a declaration (is named);
\* elem is the element or return type; members are the member or parameter
\* types. Types refer to each other by address.
Ty(kind, tag, is_signed, decl, elem, members) ==
  [kind |-> kind, tag |-> tag, is_signed |-> is_signed, decl |-> decl,
   elem |-> elem, members |-> members]

\* The type objects of a module, by address.
Types ==
  << Ty("Integer", 32, TRUE, FALSE, NULL, <<>>),          \* 1
     Ty("Integer", 32, TRUE, FALSE, NULL, <<>>),          \* 2: another object of the same type
     Ty("Integer", 32, FALSE, FALSE, NULL, <<>>),         \* 3
     Ty("Builtin", 1, FALSE, FALSE, NULL, <<>>),          \* 4
     Ty("FFIType", 1, FALSE, FALSE, NULL, <<>>),          \* 5
     Ty("Named", 0, FALSE, FALSE, NULL, <<>>),            \* 6
     Ty("Enum", 0, FALSE, FALSE, NULL, <<>>),             \* 7
     Ty("Struct", 0, FALSE, TRUE, NULL, <<1>>),           \* 8: a named struct
     Ty("Struct", 0, FALSE, TRUE, NULL, <<1>>),           \* 9: another named struct, same members
     Ty("Struct", 0, FALSE, FALSE, NULL, <<1>>),          \* 10
     Ty("Struct", 0, FALSE, FALSE, NULL, <<2>>),          \* 11
     Ty("Struct", 0, FALSE, FALSE, NULL, <<1, 3>>),       \* 12
     Ty("Struct", 0, FALSE, FALSE, NULL, <<3, 1>>),       \* 13
     Ty("Struct", 0, FALSE, FALSE, NULL, <<8>>),          \* 14: anonymous, with a named member
     Ty("Struct", 0, FALSE, FALSE, NULL, <<8>>),          \* 15
     Ty("Struct", 0, FALSE, FALSE, NULL, <<9>>),          \* 16
     Ty("Struct", 0, FALSE, FALSE, NULL, <<>>),           \* 17
     Ty("Struct", 0, FALSE, FALSE, NULL, <<1, 1>>),       \* 18
     Ty("Struct", 0, FALSE, FALSE, NULL, <<10>>),         \* 19: anonymous in anonymous
     Ty("Struct", 0, FALSE, FALSE, NULL, <<11>>),         \* 20
     Ty("Pointer", 0, FALSE, FALSE, 8, <<>>),             \* 21
     Ty("Reference", 0, FALSE, FALSE, 10, <<>>),          \* 22
     Ty("Array", 2, FALSE, FALSE, 1, <<>>),               \* 23
     Ty("Function", 0, FALSE, FALSE, 1, <<8>>),           \* 24
     Ty("DynamicArray", 0, FALSE, FALSE, 10, <<>>) >>     \* 25

\* The kinds the Intercept front end has.
IntcKinds == {"Builtin", "FFIType", "Named", "Pointer", "Reference", "Array",
              "Function", "Struct", "Integer"}

RECURSIVE GlintEqual(_, _)
\* lcc::glint::Type::Equal
GlintEqual(a, b) ==
  LET ta == Types[a]
      tb == Types[b]
  IN IF a = b THEN TRUE
     ELSE IF ta.kind # tb.kind THEN FALSE
     ELSE CASE ta.kind \in {"Builtin", "FFIType"} -> ta.tag = tb.tag
            [] ta.kind \in {"Named", "Enum"} -> a = b
            [] ta.kind \in {"Pointer", "Reference", "DynamicArray"} ->
                 GlintEqual(ta.elem, tb.elem)
            [] ta.kind = "Array" ->
                 ta.tag = tb.tag /\ GlintEqual(ta.elem, tb.elem)
            [] ta.kind = "Function" ->
                 IF Len(ta.members) # Len(tb.members) THEN FALSE
                 ELSE IF \E i \in DOMAIN ta.members :
                           ~ GlintEqual(ta.members[i], tb.members[i])
                 THEN FALSE
                 ELSE GlintEqual(ta.elem, tb.elem)
            [] ta.kind = "Struct" ->
                 IF ta.decl \/ tb.decl THEN FALSE
                 ELSE IF Len(ta.members) # Len(tb.members) THEN FALSE
                 ELSE ~ \E i \in DOMAIN ta.members :
                           ~ GlintEqual(ta.members[i], tb.members[i])
            [] ta.kind = "Integer" ->
                 ta.tag = tb.tag /\ ta.is_signed = tb.is_signed

RECURSIVE IntcEqual(_, _)
\* intc::Type::Equal
IntcEqual(a, b) ==
  LET ta == Types[a]
      tb == Types[b]
  IN IF ta.kind # tb.kind THEN FALSE
     ELSE CASE ta.kind \in {"Builtin", "FFIType"} -> ta.tag = tb.tag
            [] ta.kind = "Named" -> a = b
            [] ta.kind \in {"Pointer", "Reference"} ->
                 IntcEqual(ta.elem, tb.elem)
            [] ta.kind = "Array" ->
                 ta.tag = tb.tag /\ IntcEqual(ta.elem, tb.elem)
            [] ta.kind = "Function" ->
                 IF Len(ta.members) # Len(tb.members) THEN FALSE
                 ELSE IF \E i \in DOMAIN ta.members :
                           ~ IntcEqual(ta.members[i], tb.members[i])
                 THEN FALSE
                 ELSE IntcEqual(ta.elem, tb.elem)
            [] ta.kind = "Struct" ->
                 IF ta.decl \/ tb.decl THEN FALSE
                 ELSE IF Len(ta.members) # Len(tb.members) THEN FALSE
                 ELSE ~ \E i \in DOMAIN ta.members :
                           ~ IntcEqual(ta.members[i], tb.members[i])
            [] ta.kind = "Integer" ->
                 ta.tag = tb.tag /\ ta.is_signed = tb.is_signed

\* Equal is about to be called on two types of one front end.
TypeInit ==
  /\ InlinerIdle
  /\ pc = "equal"
  /\ node = NoNode
  /\ \E lang \in {"glint", "intc"} :
     \E a \in DOMAIN Types :
     \E b \in DOMAIN Types :
       /\ lang = "intc" => Types[a].kind \in IntcKinds /\ Types[b].kind \in IntcKinds
       /\ cmp = [lang |-> lang, a |-> a, b |-> b, done |-> FALSE, result |-> FALSE]

CallGlintEqual ==
  /\ pc = "equal"
  /\ cmp.lang = "glint"
  /\ cmp' = [cmp EXCEPT !.done = TRUE, !.result = GlintEqual(cmp.a, cmp.b)]
  /\ pc' = "returned"
  /\ UNCHANGED <<inlinerVars, node>>

CallIntcEqual ==
  /\ pc = "equal"
  /\ cmp.lang = "intc"
  /\ cmp' = [cmp EXCEPT !.done = TRUE, !.result = IntcEqual(cmp.a, cmp.b)]
  /\ pc' = "returned"
  /\ UNCHANGED <<inlinerVars, node>>

TypeNext ==
  \/ CallGlintEqual
  \/ CallIntcEqual

TypeSpec == TypeInit /\ [][TypeNext]_vars

\* Equal of the front end the comparison belongs to.
EqualOf(lang, a, b) == IF lang = "glint" THEN GlintEqual(a, b) ELSE IntcEqual(a, b)

\* What the rule for structs gives: the same named struct, or two anonymous
\* structs with as many members and pairwise-equal member types in order.
StructRule(lang, a, b) ==
  \/ Types[a].decl /\ a = b
  \/ /\ ~ Types[a].decl
     /\ ~ Types[b].decl
     /\ Len(Types[a].members) = Len(Types[b].members)
     /\ \A i \in DOMAIN Types[a].members :
          EqualOf(lang, Types[a].members[i], Types[b].members[i])

BothStructs == Types[cmp.a].kind = "Struct" /\ Types[cmp.b].kind = "Struct"

\* Equal follows the rule for structs on two struct types.
StructsFollowRule ==
  (cmp.done /\ BothStructs) => (cmp.result <=> StructRule(cmp.lang, cmp.a, cmp.b))

\* Equal(t, t) holds.
EqualIsReflexive == (cmp.done /\ cmp.a = cmp.b) => cmp.result

\* C27: in both front ends Equal treats named structs by identity and
\* anonymous structs positionally, and Equal(t, t) holds for every type t.
C27_StructEqualityAndReflexivity == StructsFollowRule /\ EqualIsReflexive


--------------------------------------------------------------------------
(* Code generation: from the AST to the IR *)

\* An AST node: its kind, its children in the order of the node's fields, and
\* whether its type is void.
Node(kind, kids, void) == [kind |-> kind, kids |-> kids, void |-> void]

NodeLiteral == Node("LITERAL", <<>>, FALSE)
NodeCall(arguments) == Node("CALL", arguments, FALSE)
NodeBinary(lhs, rhs) == Node("BINARY", <<lhs, rhs>>, FALSE)
\* The yield of a block is that of its last expression.
NodeBlock(children) ==
  Node("BLOCK", children, children = <<>> \/ children[Len(children)].void)
\* An if without else yields nothing.
NodeIf(condition, then) == Node("IF", <<condition, then>>, TRUE)
NodeIfElse(condition, then, else_) ==
  Node("IF", <<condition, then, else_>>, then.void \/ else_.void)
NodeWhile(condition, body) == Node("WHILE", <<condition, body>>, TRUE)
NodeFor(init, condition, iterator, body) ==
  Node("FOR", <<init, condition, iterator, body>>, TRUE)

\* The context of code generation: the instructions and blocks built so far,
\* ctx->block, the ir of the expression emitted last, whether an emit was
\* rejected, and the locals of the calls of codegen_expr in progress.
NewContext ==
  [I |-> <<>>,
   B |-> <<[instructions |-> <<>>, attached |-> TRUE]>>,
   block |-> 1,
   ir |-> NULL,
   rejected |-> FALSE,
   locals |-> <<>>]

\* IR builder.
ir_is_closed(c, b) ==
  /\ c.B[b].instructions # <<>>
  /\ c.I[c.B[b].instructions[Len(c.B[b].instructions)]].kind \in Terminators

\* Emits are rejected in a closed block.
ir_insert(c, kind, ops, blks) ==
  IF c.rejected THEN c
  ELSE IF ir_is_closed(c, c.block)
  THEN [c EXCEPT !.rejected = TRUE, !.ir = NULL]
  ELSE [c EXCEPT
          !.I = Append(@, [kind |-> kind, parent_block |-> c.block,
                           ops |-> ops, blks |-> blks]),
          !.B[c.block].instructions = Append(@, Len(c.I) + 1),
          !.ir = Len(c.I) + 1]

ir_block_create(c) ==
  [c EXCEPT !.B = Append(@, [instructions |-> <<>>, attached |-> FALSE])]

ir_block_attach(c, b) == [c EXCEPT !.B[b].attached = TRUE, !.block = b]

ir_branch(c, dest) == ir_insert(c, "BRANCH", <<>>, <<dest>>)

ir_branch_conditional(c, cond, then_block, else_block) ==
  ir_insert(c, "BRANCH_CONDITIONAL", <<cond>>, <<then_block, else_block>>)

ir_return(c, value) ==
  ir_insert(c, "RETURN", IF value = NULL THEN <<>> ELSE <<value>>, <<>>)

ir_phi(c) == ir_insert(c, "PHI", <<>>, <<>>)

ir_phi_argument(c, phi, b, value) ==
  IF phi = NULL THEN c
  ELSE [c EXCEPT !.I[phi].ops = Append(@, value), !.I[phi].blks = Append(@, b)]

\* The locals of the innermost call of codegen_expr in progress.
Locals(c) == c.locals[Len(c.locals)]
EnterCall(c, frame) == [c EXCEPT !.locals = Append(@, frame)]
\* The call returns; expr->ir is value.
LeaveCall(c, value) ==
  [c EXCEPT !.locals = SubSeq(@, 1, Len(@) - 1), !.ir = value]

RECURSIVE codegen_expr(_, _)

\* NODE_IF: the condition is emitted; create the three blocks, branch, and
\* attach the then block.
IfBranch(c) ==
  ir_block_attach(
    ir_branch_conditional(
      EnterCall(ir_block_create(ir_block_create(ir_block_create(c))),
                [then_block |-> Len(c.B) + 1, last_then_block |-> Len(c.B) + 1,
                 else_block |-> Len(c.B) + 2, last_else_block |-> Len(c.B) + 2,
                 join_block |-> Len(c.B) + 3, then_ir |-> NULL]),
      c.ir, Len(c.B) + 1, Len(c.B) + 2),
    Len(c.B) + 1)

\* The branch to the join block that ends a branch of the if.
BranchToJoin(c) ==
  IF ~ ir_is_closed(c, c.block) THEN ir_branch(c, Locals(c).join_block) ELSE c

\* Variant: the block the then branch started in is taken for its last block.
IfThenDone_KeepsFirstBlock(c) ==
  ir_block_attach(
    BranchToJoin([c EXCEPT !.locals[Len(c.locals)].then_ir = c.ir]),
    Locals(c).else_block)

\* NODE_IF: the then branch is emitted; remember where it ended, branch to
\* the join block and attach the else block.
IfThenDone(c) ==
  ir_block_attach(
    BranchToJoin([c EXCEPT !.locals[Len(c.locals)].last_then_block = c.block,
                           !.locals[Len(c.locals)].then_ir = c.ir]),
    Locals(c).else_block)

\* NODE_IF: the else branch is emitted.
IfElseDone(c) == [c EXCEPT !.locals[Len(c.locals)].last_else_block = c.block]

\* NODE_IF: the PHI for the result of the if.
IfPhi(c, else_ir) ==
  LeaveCall(
    ir_phi_argument(
      ir_phi_argument(ir_phi(c), ir_phi(c).ir,
                      Locals(c).last_then_block, Locals(c).then_ir),
      ir_phi(c).ir, Locals(c).last_else_block, else_ir),
    ir_phi(c).ir)

\* NODE_IF: branch to the join block, attach it and insert the PHI.
IfJoin(c, void) ==
  IF void
  THEN LeaveCall(ir_block_attach(BranchToJoin(c), Locals(c).join_block), NULL)
  ELSE IfPhi(ir_block_attach(BranchToJoin(c), Locals(c).join_block), c.ir)

CodegenIf(c, expr) ==
  IF Len(expr.kids) = 3
  THEN IfJoin(IfElseDone(codegen_expr(
                IfThenDone(codegen_expr(IfBranch(codegen_expr(c, expr.kids[1])),
                                        expr.kids[2])),
                expr.kids[3])),
              expr.void)
  ELSE IfJoin(IfThenDone(codegen_expr(IfBranch(codegen_expr(c, expr.kids[1])),
                                      expr.kids[2])),
              expr.void)

\* NODE_WHILE: branch to the condition block and attach it.
WhileBegin(c) ==
  ir_block_attach(
    ir_branch(EnterCall(ir_block_create(ir_block_create(c)),
                        [while_cond_block |-> Len(c.B) + 1,
                         join_block |-> Len(c.B) + 2]),
              Len(c.B) + 1),
    Len(c.B) + 1)

\* NODE_WHILE with an empty body: no body block.
WhileEmptyBody(c) ==
  LeaveCall(
    ir_block_attach(
      ir_branch_conditional(c, c.ir, Locals(c).while_cond_block,
                            Locals(c).join_block),
      Locals(c).join_block),
    NULL)

\* NODE_WHILE: the condition is emitted; branch into the body block.
WhileBody(c) ==
  ir_block_attach(
    ir_branch_conditional(ir_block_create(c), c.ir, Len(c.B) + 1,
                          Locals(c).join_block),
    Len(c.B) + 1)

\* NODE_WHILE: the body is emitted; branch back and attach the join block.
WhileEnd(c) ==
  LeaveCall(
    ir_block_attach(
      IF ~ ir_is_closed(c, c.block)
      THEN ir_branch(c, Locals(c).while_cond_block) ELSE c,
      Locals(c).join_block),
    NULL)

CodegenWhile(c, expr) ==
  IF expr.kids[2].kids = <<>>
  THEN WhileEmptyBody(codegen_expr(WhileBegin(c), expr.kids[1]))
  ELSE WhileEnd(codegen_expr(WhileBody(codegen_expr(WhileBegin(c), expr.kids[1])),
                             expr.kids[2]))

\* NODE_FOR: create the blocks before the initialiser is emitted.
ForBegin(c) ==
  EnterCall(ir_block_create(ir_block_create(ir_block_create(c))),
            [cond_block |-> Len(c.B) + 1, body_block |-> Len(c.B) + 2,
             join_block |-> Len(c.B) + 3])

\* NODE_FOR: the initialiser is emitted; branch to the condition block.
ForCond(c) ==
  ir_block_attach(ir_branch(c, Locals(c).cond_block), Locals(c).cond_block)

\* NODE_FOR: the condition is emitted; branch into the body block.
ForBody(c) ==
  ir_block_attach(
    ir_branch_conditional(c, c.ir, Locals(c).body_block, Locals(c).join_block),
    Locals(c).body_block)

\* NODE_FOR: body and iterator are emitted; branch back, attach the join block.
ForEnd(c) ==
  LeaveCall(
    ir_block_attach(ir_branch(c, Locals(c).cond_block), Locals(c).join_block),
    NULL)

CodegenFor(c, expr) ==
  ForEnd(codegen_expr(
           codegen_expr(
             ForBody(codegen_expr(ForCond(codegen_expr(ForBegin(c), expr.kids[1])),
                                  expr.kids[2])),
             expr.kids[4]),
           expr.kids[3]))

RECURSIVE CodegenChildren(_, _, _)
\* NODE_BLOCK: emit the children in order.
CodegenChildren(c, children, i) ==
  IF i > Len(children) THEN c
  ELSE CodegenChildren(codegen_expr(c, children[i]), children, i + 1)

CodegenBlock(c, expr) ==
  IF expr.void
  THEN [CodegenChildren(c, expr.kids, 1) EXCEPT !.ir = NULL]
  ELSE CodegenChildren(c, expr.kids, 1)

\* NODE_CALL: an argument is emitted; add it to the call.
ArgumentDone(c) == [c EXCEPT !.locals[Len(c.locals)].arguments = Append(@, c.ir)]

RECURSIVE CodegenArguments(_, _, _)
\* NODE_CALL: emit the arguments in order.
CodegenArguments(c, arguments, i) ==
  IF i > Len(arguments) THEN c
  ELSE CodegenArguments(ArgumentDone(codegen_expr(c, arguments[i])),
                        arguments, i + 1)

\* NODE_CALL, direct: the call is inserted after its arguments are emitted.
CallInsert(c) ==
  LeaveCall(ir_insert(c, "CALL", Locals(c).arguments, <<>>),
            ir_insert(c, "CALL", Locals(c).arguments, <<>>).ir)

CodegenCall(c, expr) ==
  CallInsert(CodegenArguments(EnterCall(c, [arguments |-> <<>>]), expr.kids, 1))

\* NODE_BINARY: the left operand is emitted.
BinaryLhsDone(c) == EnterCall(c, [lhs_ir |-> c.ir])

\* NODE_BINARY: both operands are emitted; insert the operation.
BinaryInsert(c) ==
  LeaveCall(ir_insert(c, "ADD", <<Locals(c).lhs_ir, c.ir>>, <<>>),
            ir_insert(c, "ADD", <<Locals(c).lhs_ir, c.ir>>, <<>>).ir)

CodegenBinary(c, expr) ==
  BinaryInsert(codegen_expr(BinaryLhsDone(codegen_expr(c, expr.kids[1])),
                            expr.kids[2]))

\* codegen_expr: emit an expression; the ir of the result is expr->ir.
codegen_expr(c, expr) ==
  IF c.rejected THEN c
  ELSE
  CASE expr.kind = "LITERAL" -> ir_insert(c, "IMMEDIATE", <<>>, <<>>)
    [] expr.kind = "IF" -> CodegenIf(c, expr)
    [] expr.kind = "WHILE" -> CodegenWhile(c, expr)
    [] expr.kind = "BLOCK" -> CodegenBlock(c, expr)
    [] expr.kind = "CALL" -> CodegenCall(c, expr)
    [] expr.kind = "BINARY" -> CodegenBinary(c, expr)
    [] expr.kind = "FOR" -> CodegenFor(c, expr)


\* codegen_function: a parameter passed in a register gets a variable that
\* its value is stored in; a parameter passed in memory is a pointer.
CodegenParameter(c, in_register) ==
  IF in_register
  THEN ir_insert(ir_insert(ir_insert(c, "ALLOCA", <<>>, <<>>),
                           "PARAMETER", <<>>, <<>>),
                 "STORE", <<Len(c.I) + 2, Len(c.I) + 1>>, <<>>)
  ELSE ir_insert(c, "PARAMETER", <<>>, <<>>)

RECURSIVE CodegenParameters(_, _, _)
CodegenParameters(c, param_decls, i) ==
  IF i > Len(param_decls) THEN c
  ELSE CodegenParameters(CodegenParameter(c, param_decls[i]), param_decls, i + 1)

\* codegen_function: the return that ends the function.
FunctionReturn(c, return_void) ==
  IF ~ ir_is_closed(c, c.block) /\ ~ return_void
  THEN ir_return(c, c.ir)
  ELSE ir_return(c, NULL)

\* codegen_function: emit a function into its first block.
codegen_function(fn) ==
  FunctionReturn(codegen_expr(CodegenParameters(NewContext, fn.param_decls, 1),
                              fn.body),
                 fn.return_void)

\* Expressions without control flow.
SimpleExprs == {NodeLiteral, NodeCall(<<NodeLiteral>>)}

\* Bodies of loops.
LoopBodies == {NodeBlock(<<>>), NodeBlock(<<NodeLiteral>>)}

\* Expressions with at most one level of control flow.
FlatExprs ==
  SimpleExprs
    \cup {NodeBlock(<<>>), NodeFor(NodeLiteral, NodeLiteral, NodeLiteral, NodeLiteral)}
    \cup {NodeIf(NodeLiteral, t) : t \in SimpleExprs}
    \cup {NodeIfElse(NodeLiteral, t, e) : t \in SimpleExprs, e \in SimpleExprs}
    \cup {NodeWhile(NodeLiteral, b) : b \in LoopBodies}

\* Conditions: a value, possibly that of an if.
Conditions == {NodeLiteral, NodeIfElse(NodeLiteral, NodeLiteral, NodeLiteral)}

FlatValues == {e \in FlatExprs : ~ e.void}

\* Expressions with control flow inside control flow, inside the arguments of
\* a call and inside the operands of a binary expression.
NestedExprs ==
  FlatExprs
    \cup {NodeIfElse(c, t, e) : c \in Conditions, t \in FlatExprs, e \in FlatExprs}
    \cup {NodeIf(c, t) : c \in Conditions, t \in FlatExprs}
    \cup {NodeWhile(c, NodeBlock(<<s>>)) : c \in Conditions, s \in FlatExprs}
    \cup {NodeFor(i, c, NodeLiteral, b) : i \in Conditions, c \in Conditions,
                                          b \in FlatExprs}
    \cup {NodeCall(<<v, w>>) : v \in FlatValues, w \in FlatValues}
    \cup {NodeBinary(v, w) : v \in FlatValues, w \in FlatValues}
    \cup {NodeBlock(<<s, t>>) : s \in FlatExprs, t \in FlatExprs}

\* A function node: its body, whether it returns void, and for each
\* parameter whether it is passed in a register.
NodeFunction(body, return_void, param_decls) ==
  [kind |-> "FUNCTION", body |-> body, return_void |-> return_void,
   param_decls |-> param_decls]

\* codegen_function is about to be called on a function whose body is typed:
\* a function that returns a value has a body that yields one.
CodegenInit ==
  /\ InlinerIdle
  /\ cmp = NoComparison
  /\ pc = "codegen"
  /\ \E body \in NestedExprs :
     \E return_void \in BOOLEAN :
     \E param_decls \in {<<>>, <<TRUE>>, <<FALSE>>} :
       /\ ~ return_void => ~ body.void
       /\ node = NodeFunction(body, return_void, param_decls)

\* What code generation built, in the places the inliner reads IR from.
CodegenVars == <<history, not_inlinable, threshold, may_fail, entry, fidx, block,
                 inst, res, total, diags, last, pre, runs, functions>>

CodegenFunction ==
  /\ pc = "codegen"
  /\ \E out \in {codegen_function(node)} :
       /\ insts' = out.I
       /\ blocks' = out.B
       /\ pc' = IF out.rejected THEN "rejected" ELSE "emitted"
  /\ UNCHANGED <<CodegenVars, cmp, node>>

CodegenNext == CodegenFunction

CodegenSpec == CodegenInit /\ [][CodegenNext]_vars

\* Code generation has returned.
CodegenReturned == pc \in {"emitted", "rejected"}

\* Block b holds exactly one terminator, as its last instruction.
OneTerminatorLast(b) ==
  /\ blocks[b].instructions # <<>>
  /\ \A k \in DOMAIN blocks[b].instructions :
       (insts[blocks[b].instructions[k]].kind \in Terminators)
         <=> (k = Len(blocks[b].instructions))

\* The blocks that branch to block b.
Predecessors(b) ==
  {insts[x].parent_block :
     x \in {y \in DOMAIN insts : /\ insts[y].kind \in {"BRANCH", "BRANCH_CONDITIONAL"}
                                 /\ b \in Range(insts[y].blks)}}

\* PHI p has one incoming pair for each predecessor of its block, and two
\* in all: one for the branch of the if that ended in each.
OnePairPerPredecessor(p) ==
  /\ Len(insts[p].blks) = 2
  /\ Len(insts[p].ops) = 2
  /\ insts[p].blks[1] # insts[p].blks[2]
  /\ Range(insts[p].blks) = Predecessors(insts[p].parent_block)
  /\ \A k \in 1..2 :
       /\ insts[p].ops[k] # NULL
       /\ ir_is_closed([I |-> insts, B |-> blocks], insts[p].blks[k])

\* C26: in the IR codegen_function builds for a function whose body is made
\* of if, while, for, block, call and binary expressions, no emit was
\* rejected for coming after a terminator, every block has exactly one
\* terminator and has it last, and every PHI of an if has exactly one
\* incoming pair for each predecessor of the join block.
C26_BlocksTerminatedAndPhisMatch ==
  CodegenReturned =>
    /\ pc = "emitted"
    /\ \A b \in DOMAIN blocks : blocks[b].attached /\ OneTerminatorLast(b)
    /\ \A p \in DOMAIN insts : insts[p].kind = "PHI" => OnePairPerPredecessor(p)

\* An if whose branches are ifs themselves was emitted: the blocks its PHI
\* names are the join blocks of the inner ifs.
C26_NestedIfEmitted ==
  /\ pc = "emitted"
  /\ node.body.kind = "IF"
  /\ ~ node.body.void
  /\ node.body.kids[2].kind = "IF"
  /\ node.body.kids[3].kind = "IF"
  /\ Cardinality({p \in DOMAIN insts : insts[p].kind = "PHI"}) = 3
  /\ \E p \in DOMAIN insts :
       /\ insts[p].kind = "PHI"
       /\ \A k \in 1..2 :
            \E q \in Range(blocks[insts[p].blks[k]].instructions) :
              insts[q].kind = "PHI"

==========================================================================
